---- MODULE Spec2Model ----
(***************************************************************************)
(* Persistent terminal-session subsystem of claudecodeui:                  *)
(* ShellSessionManager (server/shell-manager.js, kept in                   *)
(* src/server/utils/claude-config.js from line 85 on) and the shell        *)
(* WebSocket handler handleShellConnection (src/server/index.js).          *)
(*                                                                         *)
(* The JavaScript event loop runs one callback at a time, so every action  *)
(* below is one callback run to completion (or to its first real           *)
(* suspension point, the await of generateClaudeEnvVars).                  *)
(***************************************************************************)
EXTENDS Integers, Sequences, FiniteSets, TLC

(* ---------------------------- bounds ----------------------------------- *)
\* number of PTY processes that are ever spawned
MaxProcs == 2
\* output chunks one PTY emits (replay specification)
MaxChunks == 2
\* clock ticks the model lets pass
MaxTicks == 3
\* output chunks the PTY emits in the buffer specification
MaxEmitBuf == 1205
MaxLog == 3
MaxPlainPtys == 2

(* ------------------------ program constants ---------------------------- *)
\* outputBuffer.length > 1000 triggers the trim
BufferMax == 1000
\* slice(-800)
BufferKeep == 800
\* 2 * 60 * 60 * 1000 ms
IdleThresholdMs == 2 * 60 * 60 * 1000
\* the model's clock advances in steps of one hour
TickMs == 60 * 60 * 1000

(* ------------------------------ inputs --------------------------------- *)
PathA == <<"/", "a">>
PathB == <<"/", "b">>
\* a project path whose directory does not exist on the server
PathMissing == <<"/", "missing">>
Paths == {PathA, PathB, PathMissing}

\* the shell command of a session, cd "${projectPath}" && claude, can change
\* to the directory
DirExists(projectPath) == projectPath # PathMissing
NoPath == <<>>

\* `project-${projectPath.replace(/[/\\]/g, '_')}`
generateSessionKey(projectPath) ==
    <<"project-">> \o [i \in 1..Len(projectPath) |->
        IF projectPath[i] \in {"/", "\\"} THEN "_" ELSE projectPath[i]]

\* project paths that differ in one character: a slash, a backslash or an
\* underscore between the directories a and b
PathSlash == <<"/", "a", "/", "b">>
PathBackslash == <<"/", "a", "\\", "b">>
PathUnderscore == <<"/", "a", "_", "b">>
SlashPaths == {PathSlash, PathBackslash, PathUnderscore}

Keys == {generateSessionKey(p) : p \in Paths \cup SlashPaths}

\* the connections: two clients; 0 stands for null (no connection)
WS == {1, 2}
Pids == 1..MaxProcs
\* terminal dimensions <<cols, rows>>; <<80, 24>> is the default of the code
DimsSet == {<<80, 24>>, <<120, 40>>}
\* the cols and rows fields of a resize message; 0 stands for a missing field
RawDims == {<<0, 0>>, <<120, 40>>, <<-1, 24>>}
\* resume targets of an init message; "null" is no resume target
ResumeIds == {"null", "s1"}
\* contents of an output chunk: plain text, or text carrying an OPEN_URL marker
ChunkKinds == {"text", "OPEN_URL"}
\* chunks with several matches of one pattern or of several patterns
UrlChunks ==
    {"text", "OPEN_URL", "Visit OPEN_URL", "OPEN_URL text open", "Visit Visit"}

VARIABLES
    sessions,   \* this.sessions: session key -> session object (0: no entry)
    sess,       \* the session objects (sessionData), by the pid of their PTY
    proc,       \* the PTY processes
    ws,         \* the WebSocket connections and their handler closures
    timers,     \* armed force-kill timers of killSession
    now,        \* the clock (ms)
    hist,       \* history: per key, the spawns and the results <<session,
                \* isNew>> of getOrCreateSession since the key last left
                \* the registry, and whether two of its calls overlapped
    plain,      \* a plain-shell connection: its socket, the ptyProcess
                \* variable of its handler, and the PTYs spawned for it
    tmux        \* the tmux session of one sessionId and the calls of
                \* TmuxSessionManager that are in progress for it

vars == <<sessions, sess, proc, ws, timers, now, hist, plain, tmux>>

NoSess == [projectPath |-> NoPath, sessionId |-> "null",
           reconnectedSessionId |-> "null", createdAt |-> 0,
           lastActiveAt |-> 0, isConnected |-> FALSE, currentWs |-> 0,
           dims |-> <<80, 24>>, outputBuffer |-> <<>>, sinceTrim |-> -1]

NoProc == [state |-> "none", sig |-> "none", dims |-> <<80, 24>>,
           exitWritten |-> FALSE, lastInput |-> 0, emitted |-> 0,
           key |-> <<>>]

NoCall == [path |-> NoPath, sessionId |-> "null", dims |-> <<80, 24>>]

NoWs == [state |-> "NONE", path |-> NoPath, pending |-> NoCall,
         currentSessionId |-> "null",
         log |-> <<>>, attached |-> 0, evicted |-> FALSE]

NoHist == [spawned |-> 0, rets |-> {}, raced |-> FALSE]

\* the concurrent calls of createSessionForId for the sessionId
TmuxCalls == {1, 2}

\* no tmux session, no call of createSessionForId or killSessionId in progress
NoTmux ==
    [exists |-> FALSE,
     create |-> [c \in TmuxCalls |->
                   [pc |-> "idle", result |-> "none", issued |-> FALSE]],
     kill |-> [pc |-> "idle", force |-> FALSE, via |-> "none",
               result |-> "none"]]

\* the plain-shell connection before it connects: let ptyProcess = null
NoPlain ==
    [state |-> "NONE", ptyProcess |-> 0, sent |-> FALSE,
     ptys |-> [i \in 1..MaxPlainPtys |->
                 [state |-> "none", sig |-> "none", wrote |-> FALSE]]]

Init ==
    /\ sessions = [k \in Keys |-> 0]
    /\ sess = [p \in Pids |-> NoSess]
    /\ proc = [p \in Pids |-> NoProc]
    /\ ws = [w \in WS |-> NoWs]
    /\ timers = {}
    /\ now = 0
    /\ hist = [k \in Keys |-> NoHist]
    /\ plain = NoPlain
    /\ tmux = NoTmux

(* ------------------- the state the operations act on ------------------- *)
\* the manager's registry and objects, the processes, the connections and
\* the clock, as one value the operations map to a new value
Cur == [sessions |-> sessions, sess |-> sess, proc |-> proc, ws |-> ws,
        timers |-> timers, now |-> now]

Commit(M) ==
    /\ sessions' = M.sessions
    /\ sess' = M.sess
    /\ proc' = M.proc
    /\ ws' = M.ws
    /\ timers' = M.timers
    /\ now' = M.now
    /\ plain' = plain
    /\ tmux' = tmux

(* ------------------------- Output Interceptor -------------------------- *)
\* the six patterns, in the order of the array; a chunk is a text of words,
\* and a word that bears the name of a pattern is a piece of text the pattern
\* matches (the second one is the OPEN_URL pattern)
patterns == <<"open", "OPEN_URL", "Opening", "Visit", "View at", "Browse to">>

\* the texts of the chunks, as sequences of words
ChunkWords ==
    {<<"text">>, <<"OPEN_URL">>, <<"Visit", "OPEN_URL">>,
     <<"OPEN_URL", "text", "open">>, <<"Visit", "Visit">>}

RECURSIVE Join(_)
\* the text made of the words
Join(words) ==
    IF Len(words) = 1 THEN words[1]
    ELSE words[1] \o " " \o Join(Tail(words))

\* the words of a text
Scan(data) == CHOOSE words \in ChunkWords : Join(words) = data

RECURSIVE execAll(_, _)
\* patterns.forEach(pattern => { while ((match = pattern.exec(data)) ...:
\* the matches in the order they are found, pattern by pattern from the
\* i-th one on, each pattern from left to right
execAll(words, i) ==
    IF i > Len(patterns) THEN <<>>
    ELSE SelectSeq(words, LAMBDA x : x = patterns[i]) \o execAll(words, i + 1)

\* number of matches of the six URL patterns in a chunk
UrlMatches(data) == Len(execAll(Scan(data), 1))

\* outputData: a match of the OPEN_URL pattern is replaced in the text
Rewritten(data) ==
    LET words == Scan(data) IN
    Join([j \in DOMAIN words |->
            IF words[j] = patterns[2] THEN "Opening in browser" ELSE words[j]])

UrlOpenMsg(tag) ==
    [type |-> "url_open", via |-> tag.via, pid |-> tag.pid, n |-> tag.n,
     text |-> "url"]

OutputMsg(tag, text) ==
    [type |-> "output", via |-> tag.via, pid |-> tag.pid, n |-> tag.n,
     text |-> text]

Tag(via, pid, n) == [via |-> via, pid |-> pid, n |-> n]

\* ws.send of one message: it reaches the client only from an OPEN socket
wsSend(W, w, msg) ==
    IF W[w].state = "OPEN" THEN [W EXCEPT ![w].log = Append(@, msg)] ELSE W

\* a send that puts the message in front of what the connection was sent
sendToWebSocketInFront(W, w, tag, data) ==
    IF W[w].state # "OPEN" THEN W
    ELSE [W EXCEPT ![w].log =
            [i \in 1..UrlMatches(data) |-> UrlOpenMsg(tag)]
              \o <<OutputMsg(tag, Rewritten(data))>> \o @]

\* a send that does not look at the state of the socket
sendToWebSocketUnchecked(W, w, tag, data) ==
    [W EXCEPT ![w].log =
        @ \o [i \in 1..UrlMatches(data) |-> UrlOpenMsg(tag)]
          \o <<OutputMsg(tag, Rewritten(data))>>]

\* a send that reports at most one URL of a chunk
sendToWebSocketOneUrl(W, w, tag, data) ==
    IF W[w].state # "OPEN" THEN W
    ELSE [W EXCEPT ![w].log =
            @ \o (IF UrlMatches(data) > 0 THEN <<UrlOpenMsg(tag)>> ELSE <<>>)
              \o <<OutputMsg(tag, Rewritten(data))>>]

\* sendToWebSocket(ws, data); tag says which chunk the data is (observation)
sendToWebSocket(W, w, tag, data) ==
    IF W[w].state # "OPEN" THEN W
    ELSE [W EXCEPT ![w].log =
            @ \o [i \in 1..UrlMatches(data) |-> UrlOpenMsg(tag)]
              \o <<OutputMsg(tag, Rewritten(data))>>]

RECURSIVE replayItems(_, _, _, _, _)
\* for (const item of session.outputBuffer) this.sendToWebSocket(ws, item.data)
replayItems(W, w, s, buf, i) ==
    IF i > Len(buf) THEN W
    ELSE replayItems(sendToWebSocket(W, w, Tag("replay", s, buf[i].n), buf[i].data),
                     w, s, buf, i + 1)

\* a replay that leaves out the oldest buffered entry
replayRecentOutputSkipFirst(W, S, s, w) ==
    LET buf == S[s].outputBuffer IN
    IF Len(buf) = 0 THEN W
    ELSE LET W1 == sendToWebSocket(W, w, Tag("marker", s, Len(buf)), "text")
             W2 == replayItems(W1, w, s, buf, 2)
         IN sendToWebSocket(W2, w, Tag("end", s, 0), "text")

\* replayRecentOutput(session, ws)
replayRecentOutput(W, S, s, w) ==
    LET buf == S[s].outputBuffer IN
    IF Len(buf) = 0 THEN W
    ELSE LET W1 == sendToWebSocket(W, w, Tag("marker", s, Len(buf)), "text")
             W2 == replayItems(W1, w, s, buf, 1)
         IN sendToWebSocket(W2, w, Tag("end", s, 0), "text")

(* ---------------------------- ws library ------------------------------- *)
\* ws.close(): an OPEN socket starts its closing handshake; the 'close'
\* event is delivered later
wsClose(W, w) ==
    IF W[w].state = "OPEN" THEN [W EXCEPT ![w].state = "CLOSING"] ELSE W

(* ------------------------------ node-pty -------------------------------- *)
\* ptyProcess.kill(signal); the default signal of kill() is SIGHUP
ptyKill(P, p, signal) ==
    IF P[p].state = "running" /\ P[p].sig # "SIGKILL"
    THEN [P EXCEPT ![p].sig = signal] ELSE P

\* the line 'exit\r' a graceful kill writes to the shell
ExitLine == <<"exit", 0>>

\* ptyProcess.write(data); the process record keeps whether the exit line was
\* written and which connection the last input came from
ptyWrite(P, p, data) ==
    IF data = ExitLine THEN [P EXCEPT ![p].exitWritten = TRUE]
    ELSE [P EXCEPT ![p].lastInput = data[2]]

ptyResize(P, p, dims) == [P EXCEPT ![p].dims = dims]

\* ptyProcess.resize(cols, rows) raises an exception instead of resizing when a
\* dimension is not positive
ptyResizeThrows(dims) == dims[1] <= 0 \/ dims[2] <= 0

(* ------------------------ ShellSessionManager -------------------------- *)
\* the smallest pid not yet used: the process the next pty.spawn creates
NextPid(P) == CHOOSE p \in Pids :
                 /\ P[p].state = "none"
                 /\ \A q \in Pids : q < p => P[q].state # "none"

CanSpawn(P) == \E p \in Pids : P[p].state = "none"

\* a reuse path that spawns again instead of returning the existing session
reuseSessionRespawn(M, projectPath, sessionId, dims) ==
    IF \E p \in Pids : M.proc[p].state = "none"
    THEN LET key == generateSessionKey(projectPath)
             p == CHOOSE q \in Pids : M.proc[q].state = "none"
         IN [M EXCEPT !.proc[p].state = "running", !.proc[p].key = key,
                      !.sess[p] = M.sess[M.sessions[key]],
                      !.sessions[key] = p]
    ELSE M

\* a reuse path that takes over the resume target of the call
reuseSessionRetarget(M, projectPath, sessionId, dims) ==
    LET key == generateSessionKey(projectPath)
        s == M.sessions[key]
    IN [M EXCEPT !.sess[s].lastActiveAt = M.now,
                 !.sess[s].sessionId = sessionId,
                 !.proc = ptyResize(M.proc, s, dims)]

\* getOrCreateSession, existing key: lines 128-139
reuseSession(M, projectPath, sessionId, dims) ==
    LET key == generateSessionKey(projectPath)
        s == M.sessions[key]
    IN [M EXCEPT !.sess[s].lastActiveAt = M.now,
                 !.proc = ptyResize(M.proc, s, dims)]

\* getOrCreateSession after the await: pty.spawn, sessionData, the onData and
\* onExit handlers, this.sessions.set: lines 152-205
createSession(M, projectPath, sessionId, dims) ==
    LET key == generateSessionKey(projectPath)
        p == NextPid(M.proc)
    IN [M EXCEPT !.proc[p] = [state |-> "running", sig |-> "none",
                              dims |-> dims, exitWritten |-> FALSE,
                              lastInput |-> 0, emitted |-> 0, key |-> key],
                 !.sess[p] = [projectPath |-> projectPath,
                              sessionId |-> sessionId,
                              reconnectedSessionId |-> sessionId,
                              createdAt |-> M.now, lastActiveAt |-> M.now,
                              isConnected |-> FALSE, currentWs |-> 0,
                              dims |-> dims, outputBuffer |-> <<>>,
                              sinceTrim |-> -1],
                 !.sessions[key] = p]

\* a buffer policy whose trim keeps one entry too many
pushOutputKeepOneMore(buf, item) ==
    LET b == Append(buf, item) IN
    IF Len(b) > BufferMax
    THEN SubSeq(b, Len(b) - BufferKeep, Len(b))
    ELSE b

\* the buffer policy of the onData handler: push, then trim (lines 182-189)
pushOutput(buf, item) ==
    LET b == Append(buf, item) IN
    IF Len(b) > BufferMax
    THEN SubSeq(b, Len(b) - BufferKeep + 1, Len(b))
    ELSE b

\* an output handler that buffers a chunk only when it can forward it
onDataOnlyBound(M, p, data) ==
    LET n == M.proc[p].emitted + 1
        c == M.sess[p].currentWs
    IN IF M.sess[p].isConnected /\ c # 0
       THEN [M EXCEPT !.proc[p].emitted = n,
                      !.sess[p].outputBuffer =
                          pushOutput(@, [data |-> data, timestamp |-> M.now,
                                         n |-> n]),
                      !.ws = sendToWebSocket(M.ws, c, Tag("live", p, n), data)]
       ELSE [M EXCEPT !.proc[p].emitted = n]

\* ptyProcess.onData handler of the session object of process p: lines 180-195
onData(M, p, data) ==
    LET n == M.proc[p].emitted + 1
        old == M.sess[p].outputBuffer
        buf == pushOutput(old, [data |-> data, timestamp |-> M.now, n |-> n])
        trimmed == Len(buf) < Len(old) + 1
        S1 == [M.sess EXCEPT ![p].outputBuffer = buf,
                             ![p].sinceTrim =
                                 IF trimmed THEN 0
                                 ELSE IF @ >= 0 THEN @ + 1 ELSE @]
        c == M.sess[p].currentWs
    IN [M EXCEPT !.proc[p].emitted = n,
                 !.sess = S1,
                 !.ws = IF M.sess[p].isConnected /\ c # 0
                        THEN sendToWebSocket(M.ws, c, Tag("live", p, n), data)
                        ELSE M.ws]

\* an exit handler that keeps the entry of a session with a bound transport
onExitUnlessBound(M, p) ==
    IF M.sess[p].isConnected THEN [M EXCEPT !.proc[p].state = "exited"]
    ELSE [M EXCEPT !.proc[p] = [NoProc EXCEPT !.state = "exited",
                                              !.key = M.proc[p].key],
                   !.sess[p] = NoSess,
                   !.sessions[M.proc[p].key] = 0]

\* ptyProcess.onExit handler of process p: lines 198-201.  The handler removes
\* whatever entry the key has.  The ended process and its session object are
\* unreachable from then on (no entry of the registry has an ended process),
\* so their records are cleared
onExit(M, p) ==
    [M EXCEPT !.proc[p] = [NoProc EXCEPT !.state = "exited",
                                         !.key = M.proc[p].key],
              !.sess[p] = NoSess,
              !.sessions[M.proc[p].key] = 0]

\* an attach that binds the new connection without closing the old one
attachWebSocketNoClose(M, projectPath, w) ==
    LET key == generateSessionKey(projectPath)
        s == M.sessions[key]
    IN IF s = 0 THEN [ok |-> FALSE, M |-> M]
       ELSE [ok |-> TRUE,
             M |-> [M EXCEPT !.sess[s].isConnected = TRUE,
                             !.sess[s].currentWs = w,
                             !.sess[s].lastActiveAt = M.now,
                             !.ws[w].attached = s]]

\* an attach that replays the buffer twice
attachWebSocketReplayTwice(M, projectPath, w) ==
    LET key == generateSessionKey(projectPath)
        s == M.sessions[key]
    IN IF s = 0 THEN [ok |-> FALSE, M |-> M]
       ELSE
       LET old == M.sess[s].currentWs
           evict == M.sess[s].isConnected /\ old # 0
           W1 == IF evict
                 THEN [wsClose(M.ws, old) EXCEPT ![old].attached = 0,
                                                 ![old].evicted = TRUE]
                 ELSE M.ws
           W2 == [W1 EXCEPT ![w].attached = s]
           S1 == [M.sess EXCEPT ![s].isConnected = TRUE,
                                ![s].currentWs = w,
                                ![s].lastActiveAt = M.now]
       IN [ok |-> TRUE,
           M |-> [M EXCEPT !.sess = S1,
                           !.ws = replayRecentOutput(
                                      replayRecentOutput(W2, S1, s, w),
                                      S1, s, w)]]

\* attachWebSocket(projectPath, ws): lines 211-237.  attached and evicted are
\* history: the session a connection was last attached to, until an attach
\* evicts it or it closes, and whether an attach has closed the connection
attachWebSocket(M, projectPath, w) ==
    LET key == generateSessionKey(projectPath)
        s == M.sessions[key]
    IN IF s = 0 THEN [ok |-> FALSE, M |-> M]
       ELSE
       LET old == M.sess[s].currentWs
           evict == M.sess[s].isConnected /\ old # 0
           W1 == IF evict
                 THEN [wsClose(M.ws, old) EXCEPT ![old].attached = 0,
                                                 ![old].evicted = TRUE]
                 ELSE M.ws
           W2 == [W1 EXCEPT ![w].attached = s]
           S1 == [M.sess EXCEPT ![s].isConnected = TRUE,
                                ![s].currentWs = w,
                                ![s].lastActiveAt = M.now]
       IN [ok |-> TRUE,
           M |-> [M EXCEPT !.sess = S1,
                           !.ws = replayRecentOutput(W2, S1, s, w)]]

\* a detach that also ends the session: kills the PTY and drops the entry
detachWebSocketKill(M, projectPath) ==
    LET key == generateSessionKey(projectPath)
        s == M.sessions[key]
    IN IF s = 0 THEN [ok |-> FALSE, M |-> M]
       ELSE [ok |-> TRUE,
             M |-> [M EXCEPT !.sess[s].isConnected = FALSE,
                             !.sess[s].currentWs = 0,
                             !.proc = ptyKill(M.proc, s, "SIGHUP"),
                             !.sessions[key] = 0]]

\* detachWebSocket(projectPath): lines 242-255
detachWebSocket(M, projectPath) ==
    LET key == generateSessionKey(projectPath)
        s == M.sessions[key]
    IN IF s = 0 THEN [ok |-> FALSE, M |-> M]
       ELSE [ok |-> TRUE,
             M |-> [M EXCEPT !.sess[s].isConnected = FALSE,
                             !.sess[s].currentWs = 0,
                             !.sess[s].lastActiveAt = M.now]]

\* a write that does not record the activity
writeToSessionNoTouch(M, projectPath, data) ==
    LET key == generateSessionKey(projectPath)
        s == M.sessions[key]
    IN IF s = 0 THEN [ok |-> FALSE, threw |-> FALSE, M |-> M]
       ELSE [ok |-> TRUE, threw |-> FALSE,
             M |-> [M EXCEPT !.proc = ptyWrite(M.proc, s, data)]]

\* a write that reaches every running process spawned for the key, whether
\* or not the registry still holds its session
writeToSessionAnyProcess(M, projectPath, data) ==
    LET key == generateSessionKey(projectPath)
        R == {p \in Pids : M.proc[p].state = "running" /\ M.proc[p].key = key}
    IN IF R = {} THEN [ok |-> FALSE, threw |-> FALSE, M |-> M]
       ELSE [ok |-> TRUE, threw |-> FALSE,
             M |-> [M EXCEPT
                 !.proc = [p \in Pids |->
                             IF p \in R THEN ptyWrite(M.proc, p, data)[p]
                             ELSE M.proc[p]],
                 !.sess = [p \in Pids |->
                             IF p \in R /\ p = M.sessions[key]
                             THEN [M.sess[p] EXCEPT !.lastActiveAt = M.now]
                             ELSE M.sess[p]]]]

\* writeToSession(projectPath, data): lines 260-271
writeToSession(M, projectPath, data) ==
    LET key == generateSessionKey(projectPath)
        s == M.sessions[key]
    IN IF s = 0 THEN [ok |-> FALSE, threw |-> FALSE, M |-> M]
       ELSE [ok |-> TRUE, threw |-> FALSE,
             M |-> [M EXCEPT !.proc = ptyWrite(M.proc, s, data),
                             !.sess[s].lastActiveAt = M.now]]

\* resizeSession(projectPath, cols, rows): lines 276-290
resizeSession(M, projectPath, dims) ==
    LET key == generateSessionKey(projectPath)
        s == M.sessions[key]
    IN IF s = 0 THEN [ok |-> FALSE, threw |-> FALSE, M |-> M]
       ELSE IF ptyResizeThrows(dims)
       THEN [ok |-> FALSE, threw |-> TRUE, M |-> M]
       ELSE [ok |-> TRUE, threw |-> FALSE,
             M |-> [M EXCEPT !.proc = ptyResize(M.proc, s, dims),
                             !.sess[s].dims = dims,
                             !.sess[s].lastActiveAt = M.now]]

\* a kill that signals the process the key last had when it has no entry
killSessionStale(M, projectPath, force) ==
    LET key == generateSessionKey(projectPath)
        s == M.sessions[key]
        last == {p \in Pids : M.proc[p].state = "running" /\ M.proc[p].key = key}
    IN IF s = 0
       THEN [ok |-> TRUE,
             M |-> [M EXCEPT !.proc = [p \in Pids |->
                                        IF p \in last
                                        THEN ptyKill(M.proc, p, "SIGKILL")[p]
                                        ELSE M.proc[p]]]]
       ELSE [ok |-> TRUE,
             M |-> [M EXCEPT
                 !.proc = IF force THEN ptyKill(M.proc, s, "SIGKILL")
                          ELSE ptyWrite(M.proc, s, ExitLine),
                 !.timers = IF force THEN @
                            ELSE @ \cup {[key |-> key, pid |-> s]},
                 !.sessions[key] = 0]]

\* a kill that leaves the entry of a gracefully killed session in place
killSessionKeepEntry(M, projectPath, force) ==
    LET key == generateSessionKey(projectPath)
        s == M.sessions[key]
    IN IF s = 0 THEN [ok |-> TRUE, M |-> M]
       ELSE [ok |-> TRUE,
             M |-> [M EXCEPT
                 !.proc = IF force THEN ptyKill(M.proc, s, "SIGKILL")
                          ELSE ptyWrite(M.proc, s, ExitLine),
                 !.timers = IF force THEN @
                            ELSE @ \cup {[key |-> key, pid |-> s]},
                 !.sessions[key] = IF force THEN 0 ELSE @]]

\* killSession(projectPath, force): lines 295-325
killSession(M, projectPath, force) ==
    LET key == generateSessionKey(projectPath)
        s == M.sessions[key]
    IN IF s = 0 THEN [ok |-> TRUE, M |-> M]
       ELSE [ok |-> TRUE,
             M |-> [M EXCEPT
                 !.proc = IF force THEN ptyKill(M.proc, s, "SIGKILL")
                          ELSE ptyWrite(M.proc, s, ExitLine),
                 !.timers = IF force THEN @
                            ELSE @ \cup {[key |-> key, pid |-> s]},
                 !.sessions[key] = 0]]

\* a timer callback that never escalates
killTimerFiredNoEscalation(M, t) ==
    [M EXCEPT !.timers = @ \ {t}]

\* the setTimeout callback of killSession: lines 314-319
killTimerFired(M, t) ==
    [M EXCEPT !.proc = IF M.sessions[t.key] # 0
                       THEN ptyKill(M.proc, t.pid, "SIGKILL") ELSE @,
              !.timers = @ \ {t}]

\* a status that reports the buffer as empty
getSessionStatusNoBuffer(M, projectPath) ==
    LET key == generateSessionKey(projectPath)
        s == M.sessions[key]
    IN IF s = 0 THEN [exists |-> FALSE, sessionKey |-> key]
       ELSE [exists |-> TRUE, sessionKey |-> key,
             isConnected |-> M.sess[s].isConnected,
             createdAt |-> M.sess[s].createdAt,
             lastActiveAt |-> M.sess[s].lastActiveAt,
             projectPath |-> M.sess[s].projectPath,
             sessionId |-> M.sess[s].sessionId,
             reconnectedSessionId |-> M.sess[s].reconnectedSessionId,
             processId |-> s,
             bufferSize |-> 0,
             dims |-> M.sess[s].dims]

\* getSessionStatus(projectPath): lines 330-352
getSessionStatus(M, projectPath) ==
    LET key == generateSessionKey(projectPath)
        s == M.sessions[key]
    IN IF s = 0 THEN [exists |-> FALSE, sessionKey |-> key]
       ELSE [exists |-> TRUE, sessionKey |-> key,
             isConnected |-> M.sess[s].isConnected,
             createdAt |-> M.sess[s].createdAt,
             lastActiveAt |-> M.sess[s].lastActiveAt,
             projectPath |-> M.sess[s].projectPath,
             sessionId |-> M.sess[s].sessionId,
             reconnectedSessionId |-> M.sess[s].reconnectedSessionId,
             processId |-> s,
             bufferSize |-> Len(M.sess[s].outputBuffer),
             dims |-> M.sess[s].dims]

\* getAllSessions(): lines 357-366; the list as a set
getAllSessions(M) ==
    {[key |-> k,
      status |-> getSessionStatus(M, M.sess[M.sessions[k]].projectPath)] :
        k \in {j \in Keys : M.sessions[j] # 0}}

\* a collection that takes every unbound session, whatever its age
sessionsToDeleteUnbound(M) ==
    {k \in Keys :
        /\ M.sessions[k] # 0
        /\ ~M.sess[M.sessions[k]].isConnected}

\* the keys cleanupInactiveSessions collects: lines 450-459
sessionsToDelete(M) ==
    {k \in Keys :
        /\ M.sessions[k] # 0
        /\ M.sess[M.sessions[k]].lastActiveAt < M.now - IdleThresholdMs
        /\ ~M.sess[M.sessions[k]].isConnected}

\* a sweep that drops the entries without killing the processes
cleanupInactiveSessionsNoKill(M) ==
    LET del == sessionsToDelete(M)
    IN [M EXCEPT
          !.sessions = [k \in Keys |-> IF k \in del THEN 0 ELSE M.sessions[k]]]

\* cleanupInactiveSessions(): lines 449-472
cleanupInactiveSessions(M) ==
    LET del == sessionsToDelete(M)
        doomed == {M.sessions[k] : k \in del}
    IN [M EXCEPT
          !.proc = [p \in Pids |->
                      IF p \in doomed THEN ptyKill(M.proc, p, "SIGHUP")[p]
                      ELSE M.proc[p]],
          !.sessions = [k \in Keys |-> IF k \in del THEN 0 ELSE M.sessions[k]]]

(* ----------------------------- history --------------------------------- *)
\* the calls of getOrCreateSession for key k suspended at the await
Pending(W, k) ==
    {w \in WS : W[w].pending # NoCall
                /\ generateSessionKey(W[w].pending.path) = k}

\* a key that leaves the registry starts a new epoch of the history
HistAfter(H, M) ==
    [k \in Keys |->
        IF sessions[k] # 0 /\ M.sessions[k] = 0
        THEN [spawned |-> 0, rets |-> {},
              raced |-> Cardinality(Pending(M.ws, k)) >= 2]
        ELSE H[k]]

(* ------------------ handleShellConnection, the events ------------------- *)
\* a connection delivers messages until its socket is closed; frames that
\* were in flight when the server called close() are still delivered
CanReceive(w) == ws[w].state \in {"OPEN", "CLOSING"}

WelcomeMsg(isNew) ==
    [type |-> "output", via |-> "welcome", pid |-> 0, n |-> 0,
     text |-> IF isNew THEN "new" ELSE "reconnected"]

\* a client connects to /shell: wss.on('connection') -> handleShellConnection
WsConnect(w) ==
    /\ ws[w].state = "NONE"
    /\ \A v \in WS : v < w => ws[v].state # "NONE"
    /\ ws' = [ws EXCEPT ![w].state = "OPEN"]
    /\ UNCHANGED <<sessions, sess, proc, timers, now, hist, plain, tmux>>

\* init message, the key is registered: getOrCreateSession returns the
\* existing session, then attachWebSocket and the welcome message run in the
\* same turn of the event loop (index.js 660-699)
InitReuse(w, projectPath, sessionId, dims) ==
    LET key == generateSessionKey(projectPath)
        s == sessions[key]
        M0 == [Cur EXCEPT !.ws[w].path = projectPath,
                          !.ws[w].currentSessionId = sessionId,
                          !.ws[w].log = <<>>]
        M1 == reuseSession(M0, projectPath, sessionId, dims)
        A == attachWebSocket(M1, projectPath, w)
        M2 == [A.M EXCEPT !.ws = wsSend(@, w, WelcomeMsg(FALSE))]
    IN /\ CanReceive(w)
       /\ ws[w].pending = NoCall
       /\ s # 0
       /\ Commit(M2)
       /\ hist' = [hist EXCEPT ![key].rets = @ \cup {<<M2.sessions[key], FALSE>>}]

\* init message, the key is not registered: getOrCreateSession passes the
\* existence check and suspends at await generateClaudeEnvVars() (line 149)
InitAwait(w, projectPath, sessionId, dims) ==
    LET key == generateSessionKey(projectPath) IN
    /\ CanReceive(w)
    /\ ws[w].pending = NoCall
    /\ sessions[key] = 0
    /\ ws' = [ws EXCEPT ![w].path = projectPath, ![w].log = <<>>,
                        ![w].currentSessionId = sessionId,
                        ![w].pending = [path |-> projectPath,
                                        sessionId |-> sessionId,
                                        dims |-> dims]]
    /\ hist' = [hist EXCEPT ![key].raced = @ \/ Pending(ws, key) # {}]
    /\ UNCHANGED <<sessions, sess, proc, timers, now, plain, tmux>>

\* the suspended getOrCreateSession resumes: spawn, register, return; the
\* handler attaches and sends the welcome message (lines 152-205, 681-697)
CreateResume(w) ==
    LET c == ws[w].pending
        key == generateSessionKey(c.path)
        M0 == [Cur EXCEPT !.ws[w].pending = NoCall]
        M1 == createSession(M0, c.path, c.sessionId, c.dims)
        A == attachWebSocket(M1, c.path, w)
        M2 == [A.M EXCEPT !.ws = wsSend(@, w, WelcomeMsg(TRUE))]
    IN /\ c # NoCall
       /\ CanSpawn(proc)
       /\ Commit(M2)
       /\ hist' = [hist EXCEPT ![key].spawned = @ + 1,
                               ![key].rets = @ \cup {<<M1.sessions[key], TRUE>>}]

\* input message (index.js 709-718)
InputMsg(w) ==
    /\ CanReceive(w)
    /\ ws[w].path # NoPath
    /\ Commit(writeToSession(Cur, ws[w].path, <<"input", w>>).M)
    /\ UNCHANGED hist

\* the message the catch block of the message handler sends (index.js
\* 728-737)
ErrorMsg ==
    [type |-> "output", via |-> "error", pid |-> 0, n |-> 0, text |-> "Error"]

\* const cols = data.cols || 80; const rows = data.rows || 24
resizeDims(raw) ==
    <<IF raw[1] = 0 THEN 80 ELSE raw[1], IF raw[2] = 0 THEN 24 ELSE raw[2]>>

\* resize message (index.js 720-737); an exception of resizeSession is caught
\* by the handler, which reports it to a connection that is open
ResizeMsg(w, raw) ==
    LET R == resizeSession(Cur, ws[w].path, resizeDims(raw)) IN
    /\ CanReceive(w)
    /\ ws[w].path # NoPath
    /\ Len(ws[w].log) < MaxLog
    /\ Commit(IF R.threw THEN [R.M EXCEPT !.ws = wsSend(@, w, ErrorMsg)]
              ELSE R.M)
    /\ UNCHANGED hist

\* the close handler of the connection (index.js 740-747)
closeHandler(M, w) ==
    IF M.ws[w].path # NoPath THEN detachWebSocket(M, M.ws[w].path).M ELSE M

\* the 'close' event of a connection: the client went away, or the closing
\* handshake the server started has finished.  No event of the connection
\* follows, so the variables of its closure are cleared
WsCloseEvent(w) ==
    /\ ws[w].state \in {"OPEN", "CLOSING", "ERRORED"}
    /\ Commit([closeHandler(Cur, w) EXCEPT !.ws[w].state = "CLOSED",
                                           !.ws[w].path = NoPath,
                                           !.ws[w].currentSessionId = "null",
                                           !.ws[w].log = <<>>,
                                           !.ws[w].attached = 0,
                                           !.ws[w].evicted = FALSE])
    /\ UNCHANGED hist

\* the 'error' event of a connection (index.js 749-756); the socket is
\* destroyed, delivers nothing more, and its 'close' event follows
WsErrorEvent(w) ==
    /\ ws[w].state \in {"OPEN", "CLOSING"}
    /\ Commit([closeHandler(Cur, w) EXCEPT !.ws[w].state = "ERRORED",
                                           !.ws[w].log = <<>>,
                                           !.ws[w].attached = 0])
    /\ UNCHANGED hist

(* --------------------- management surface, timers ---------------------- *)
\* DELETE /api/projects/:projectName/shell (index.js 1010-1022)
KillSession(projectPath, force) ==
    LET key == generateSessionKey(projectPath)
        M1 == killSession(Cur, projectPath, force).M
    IN /\ Commit(M1)
       /\ hist' = HistAfter(hist, M1)

\* the 5-second timer of a graceful kill fires
KillTimer(t) ==
    /\ t \in timers
    /\ Commit(killTimerFired(Cur, t))
    /\ UNCHANGED hist

\* the 10-minute interval of startCleanupTimer fires
Reaper ==
    LET M1 == cleanupInactiveSessions(Cur) IN
    /\ Commit(M1)
    /\ hist' = HistAfter(hist, M1)

(* ------------------------------ the PTY -------------------------------- *)
\* the process of a session emits a chunk
PtyDataUpTo(p, data, limit) ==
    /\ proc[p].state = "running"
    /\ proc[p].emitted < limit
    /\ Commit(onData(Cur, p, data))
    /\ UNCHANGED hist

PtyData(p, data) == PtyDataUpTo(p, data, MaxChunks)

\* the process ends, by itself or by a signal: its exit event
PtyExit(p) ==
    LET M1 == onExit(Cur, p) IN
    /\ proc[p].state = "running"
    /\ Commit(M1)
    /\ hist' = HistAfter(hist, M1)

\* time passes; an armed 5-second timer fires before an hour has passed
Tick ==
    /\ now < MaxTicks * TickMs
    /\ timers = {}
    /\ now' = now + TickMs
    /\ UNCHANGED <<sessions, sess, proc, ws, timers, hist, plain, tmux>>

(* ------------------- handlePlainShellConnection ------------------------ *)
\* the PTYs of the plain-shell connection, in the order spawned
PlainPtys == 1..MaxPlainPtys

PlainCanReceive == plain.state \in {"OPEN", "CLOSING"}

\* ptyProcess.kill() of the close and error handlers; an exception of kill is
\* caught and logged
plainKill(ptys, i) ==
    IF i # 0 /\ ptys[i].state = "running"
    THEN [ptys EXCEPT ![i].sig = "SIGHUP"] ELSE ptys

\* a client connects to /plain-shell
PlainConnect ==
    /\ plain.state = "NONE"
    /\ plain' = [plain EXCEPT !.state = "OPEN"]
    /\ UNCHANGED <<sessions, sess, proc, ws, timers, now, hist, tmux>>

\* init message: pty.spawn, the handle is assigned to ptyProcess, the welcome
\* message is sent (index.js 767-831)
PlainInit ==
    /\ PlainCanReceive
    /\ \E i \in PlainPtys :
          /\ plain.ptys[i].state = "none"
          /\ \A j \in PlainPtys : j < i => plain.ptys[j].state # "none"
          /\ plain' = [plain EXCEPT !.ptys[i].state = "running",
                                    !.ptyProcess = i,
                                    !.sent = IF plain.state = "OPEN"
                                             THEN TRUE ELSE @]
    /\ UNCHANGED <<sessions, sess, proc, ws, timers, now, hist, tmux>>

\* input message (index.js 833-839)
PlainInput ==
    /\ PlainCanReceive
    /\ plain.ptyProcess # 0
    /\ plain' = [plain EXCEPT !.ptys[plain.ptyProcess].wrote = TRUE]
    /\ UNCHANGED <<sessions, sess, proc, ws, timers, now, hist, tmux>>

\* the exit event of a PTY of the connection (index.js 809-818): an open
\* connection is told and closed
PlainPtyExit(i) ==
    /\ plain.ptys[i].state = "running"
    /\ plain' = [plain EXCEPT !.ptys[i].state = "exited",
                              !.sent = IF plain.state = "OPEN" THEN TRUE ELSE @,
                              !.state = IF @ = "OPEN" THEN "CLOSING" ELSE @]
    /\ UNCHANGED <<sessions, sess, proc, ws, timers, now, hist, tmux>>

\* the 'close' event of the connection (index.js 876-889)
PlainCloseEvent ==
    /\ plain.state \in {"OPEN", "CLOSING", "ERRORED"}
    /\ plain' = [plain EXCEPT !.state = "CLOSED",
                              !.ptys = plainKill(@, plain.ptyProcess),
                              !.ptyProcess = 0]
    /\ UNCHANGED <<sessions, sess, proc, ws, timers, now, hist, tmux>>

\* the 'error' event of the connection (index.js 891-904)
PlainErrorEvent ==
    /\ plain.state \in {"OPEN", "CLOSING"}
    /\ plain' = [plain EXCEPT !.state = "ERRORED",
                              !.ptys = plainKill(@, plain.ptyProcess),
                              !.ptyProcess = 0]
    /\ UNCHANGED <<sessions, sess, proc, ws, timers, now, hist, tmux>>

(* ------------------------ TmuxSessionManager --------------------------- *)
\* sessionExists(sessionName): tmux has-session succeeds (tmux-manager.js
\* 25-33)
sessionExists(T) == T.exists

\* createSessionForId up to its first await: the existence check (76-83)
createSessionForIdCheck(c) ==
    /\ tmux.create[c].pc \in {"idle", "done"}
    /\ tmux' = [tmux EXCEPT !.create[c] =
                  IF sessionExists(tmux)
                  THEN [pc |-> "done", result |-> "exists", issued |-> FALSE]
                  ELSE [pc |-> "create", result |-> "none", issued |-> FALSE]]
    /\ UNCHANGED <<sessions, sess, proc, ws, timers, now, hist, plain>>

\* createSessionForId after the check: tmux new-session -d -s name, which
\* fails when a session of the name exists; the failure is thrown (85-106)
createSessionForIdExec(c) ==
    /\ tmux.create[c].pc = "create"
    /\ tmux' = [tmux EXCEPT
                  !.exists = TRUE,
                  !.create[c] =
                      [pc |-> "done", issued |-> TRUE,
                       result |-> IF tmux.exists THEN "threw" ELSE "created"]]
    /\ UNCHANGED <<sessions, sess, proc, ws, timers, now, hist, plain>>

\* the command of the tmux session ends and the session with it
TmuxSessionExit ==
    /\ tmux.exists
    /\ tmux' = [tmux EXCEPT !.exists = FALSE]
    /\ UNCHANGED <<sessions, sess, proc, ws, timers, now, hist, plain>>

\* killSessionId up to its first await: the existence check (148-155)
killSessionIdCheck(force) ==
    /\ tmux.kill.pc \in {"idle", "done"}
    /\ tmux' = [tmux EXCEPT !.kill =
                  IF ~sessionExists(tmux)
                  THEN [pc |-> "done", force |-> force, via |-> "none",
                        result |-> "absent"]
                  ELSE IF force
                  THEN [pc |-> "kill", force |-> force, via |-> "force",
                        result |-> "none"]
                  ELSE [pc |-> "send", force |-> force, via |-> "none",
                        result |-> "none"]]
    /\ UNCHANGED <<sessions, sess, proc, ws, timers, now, hist, plain>>

\* sendCommandToSessionId(sessionId, 'exit'): tmux send-keys, which fails
\* when the session does not exist; the failure is thrown (267-277) and
\* caught by the inner catch of killSessionId (170-172)
killSessionIdSend ==
    /\ tmux.kill.pc = "send"
    /\ tmux' = [tmux EXCEPT !.kill.pc = IF tmux.exists THEN "wait" ELSE "kill",
                            !.kill.via = IF tmux.exists THEN @ ELSE "sendFailed"]
    /\ UNCHANGED <<sessions, sess, proc, ws, timers, now, hist, plain>>

\* the 2 seconds have passed: the second existence check (163-169)
killSessionIdWait ==
    /\ tmux.kill.pc = "wait"
    /\ tmux' = [tmux EXCEPT !.kill =
                  IF ~sessionExists(tmux)
                  THEN [@ EXCEPT !.pc = "done", !.result = "graceful"]
                  ELSE [@ EXCEPT !.pc = "kill", !.via = "wait"]]
    /\ UNCHANGED <<sessions, sess, proc, ws, timers, now, hist, plain>>

\* tmux kill-session, which fails when the session does not exist; the
\* failure is logged by the outer catch (175-180)
killSessionIdExec ==
    /\ tmux.kill.pc = "kill"
    /\ tmux' = [tmux EXCEPT
                  !.exists = FALSE,
                  !.kill.pc = "done",
                  !.kill.result = IF tmux.exists THEN "killed" ELSE "failed"]
    /\ UNCHANGED <<sessions, sess, proc, ws, timers, now, hist, plain>>

(* --------------------------- specifications --------------------------- *)
\* Spec: registry and transport lifecycle of one project: create-or-reuse
\* with its suspension point, attach and eviction, detach, explicit kill with
\* its timer, process exit
ConnPaths == {PathA}
ConnDims == {<<80, 24>>}
ConnResume == {"null"}

Next ==
    \/ \E w \in WS : WsConnect(w)
    \/ \E w \in WS, pp \in ConnPaths, sid \in ConnResume, d \in ConnDims :
          InitReuse(w, pp, sid, d)
    \/ \E w \in WS, pp \in ConnPaths, sid \in ConnResume, d \in ConnDims :
          InitAwait(w, pp, sid, d)
    \/ \E w \in WS : CreateResume(w)
    \/ \E w \in WS : WsCloseEvent(w)
    \/ \E w \in WS : WsErrorEvent(w)
    \/ \E pp \in ConnPaths, f \in BOOLEAN : KillSession(pp, f)
    \/ \E t \in timers : KillTimer(t)
    \/ \E p \in Pids : PtyExit(p)

Spec == Init /\ [][Next]_vars

\* SpecReplay: output, buffering and replay of one project's session while
\* connections attach and detach
NextReplay ==
    \/ \E w \in WS : WsConnect(w)
    \/ \E w \in WS, pp \in ConnPaths, sid \in ConnResume, d \in ConnDims :
          InitReuse(w, pp, sid, d)
    \/ \E w \in WS, pp \in ConnPaths, sid \in ConnResume, d \in ConnDims :
          InitAwait(w, pp, sid, d)
    \/ \E w \in WS : CreateResume(w)
    \/ \E w \in WS : WsCloseEvent(w)
    \/ \E w \in WS : WsErrorEvent(w)
    \/ \E p \in Pids, d \in ChunkKinds : PtyData(p, d)

SpecReplay == Init /\ [][NextReplay]_vars

\* SpecIdle: the clock and the Idle Reaper over the session of one project,
\* with activity, eviction and detach
NextIdle ==
    \/ \E w \in WS : WsConnect(w)
    \/ \E w \in WS, pp \in ConnPaths, sid \in ConnResume, d \in ConnDims :
          InitReuse(w, pp, sid, d)
    \/ \E w \in WS, pp \in ConnPaths, sid \in ConnResume, d \in ConnDims :
          InitAwait(w, pp, sid, d)
    \/ \E w \in WS : CreateResume(w)
    \/ \E w \in WS : InputMsg(w)
    \/ \E w \in WS : WsCloseEvent(w)
    \/ \E w \in WS : WsErrorEvent(w)
    \/ Reaper
    \/ Tick

SpecIdle == Init /\ [][NextIdle]_vars

\* SpecSweep: the Idle Reaper over the sessions of two projects, each with
\* its own client
SweepPath(w) == IF w = 1 THEN PathA ELSE PathB

NextSweep ==
    \/ \E w \in WS : WsConnect(w)
    \/ \E w \in WS, d \in ConnDims : InitReuse(w, SweepPath(w), "null", d)
    \/ \E w \in WS, d \in ConnDims : InitAwait(w, SweepPath(w), "null", d)
    \/ \E w \in WS : CreateResume(w)
    \/ \E w \in WS : InputMsg(w)
    \/ \E w \in WS : WsCloseEvent(w)
    \/ Reaper
    \/ Tick

SpecSweep == Init /\ [][NextSweep]_vars

\* SpecBuf: the output buffer of one session under a long run of output
BufData(p) == PtyDataUpTo(p, "text", MaxEmitBuf)

NextBuf ==
    \/ WsConnect(1)
    \/ InitAwait(1, PathA, "null", <<80, 24>>)
    \/ CreateResume(1)
    \/ WsCloseEvent(1)
    \/ \E p \in Pids : BufData(p)

SpecBuf == Init /\ [][NextBuf]_vars

\* SpecExit: process exit of the session of one project at any age, with
\* transports bound or not
NextExit ==
    \/ \E w \in WS : WsConnect(w)
    \/ \E w \in WS, pp \in ConnPaths, sid \in ConnResume, d \in ConnDims :
          InitReuse(w, pp, sid, d)
    \/ \E w \in WS, pp \in ConnPaths, sid \in ConnResume, d \in ConnDims :
          InitAwait(w, pp, sid, d)
    \/ \E w \in WS : CreateResume(w)
    \/ \E w \in WS : WsCloseEvent(w)
    \/ \E p \in Pids : PtyExit(p)
    \/ Tick

SpecExit == Init /\ [][NextExit]_vars

\* SpecResize: resize messages of the connections of one project while its
\* session is created, killed and exits
NextResize ==
    \/ \E w \in WS : WsConnect(w)
    \/ \E w \in WS, pp \in ConnPaths, sid \in ConnResume, d \in ConnDims :
          InitReuse(w, pp, sid, d)
    \/ \E w \in WS, pp \in ConnPaths, sid \in ConnResume, d \in ConnDims :
          InitAwait(w, pp, sid, d)
    \/ \E w \in WS : CreateResume(w)
    \/ \E w \in WS, raw \in RawDims : ResizeMsg(w, raw)
    \/ \E w \in WS : WsCloseEvent(w)
    \/ \E pp \in ConnPaths : KillSession(pp, TRUE)
    \/ \E p \in Pids : PtyExit(p)

SpecResize == Init /\ [][NextResize]_vars

\* SpecDetached: output of one session over time: connection 1 creates the
\* session and connection 2 attaches to it later
NextDetached ==
    \/ \E w \in WS : WsConnect(w)
    \/ InitAwait(1, PathA, "null", <<80, 24>>)
    \/ CreateResume(1)
    \/ InitReuse(2, PathA, "null", <<80, 24>>)
    \/ \E w \in WS : WsCloseEvent(w)
    \/ \E p \in Pids : PtyData(p, "text")
    \/ Tick

SpecDetached == Init /\ [][NextDetached]_vars

\* SpecPlain: a plain-shell connection next to a persistent session of the
\* same server
NextPlain ==
    \/ WsConnect(1)
    \/ InitAwait(1, PathA, "null", <<80, 24>>)
    \/ CreateResume(1)
    \/ WsCloseEvent(1)
    \/ PlainConnect
    \/ PlainInit
    \/ PlainInput
    \/ \E i \in PlainPtys : PlainPtyExit(i)
    \/ PlainCloseEvent
    \/ PlainErrorEvent

SpecPlain == Init /\ [][NextPlain]_vars

\* SpecSpawn: sessions requested for a project whose directory does not exist
NextSpawn ==
    \/ \E w \in WS : WsConnect(w)
    \/ \E w \in WS : InitReuse(w, PathMissing, "null", <<80, 24>>)
    \/ \E w \in WS : InitAwait(w, PathMissing, "null", <<80, 24>>)
    \/ \E w \in WS : CreateResume(w)
    \/ \E w \in WS : WsCloseEvent(w)
    \/ \E p \in Pids : PtyExit(p)

SpecSpawn == Init /\ [][NextSpawn]_vars

\* SpecLeak: the processes of one project's sessions under explicit kills.
\* A process that was sent a signal ends; a process that was only written
\* the exit line, or nothing, ends when it chooses to, possibly never.  An
\* armed timer fires.
PtySignalledExit(p) == proc[p].sig # "none" /\ PtyExit(p)

NextLeak ==
    \/ \E w \in WS : WsConnect(w)
    \/ \E w \in WS, pp \in ConnPaths, sid \in ConnResume, d \in ConnDims :
          InitReuse(w, pp, sid, d)
    \/ \E w \in WS, pp \in ConnPaths, sid \in ConnResume, d \in ConnDims :
          InitAwait(w, pp, sid, d)
    \/ \E w \in WS : CreateResume(w)
    \/ \E w \in WS : WsCloseEvent(w)
    \/ \E pp \in ConnPaths, f \in BOOLEAN : KillSession(pp, f)
    \/ \E t \in timers : KillTimer(t)
    \/ \E p \in Pids : PtyExit(p)

SpecLeak ==
    /\ Init /\ [][NextLeak]_vars
    /\ WF_vars(\E t \in timers : KillTimer(t))
    /\ \A p \in Pids : WF_vars(PtySignalledExit(p))

\* SpecActive: the activity of one session over time: connection 1 creates
\* it, connection 2 attaches to it, both send input and resize messages
ActiveResize(w) == ResizeMsg(w, <<120, 40>>)

NextActive ==
    \/ \E w \in WS : WsConnect(w)
    \/ InitAwait(1, PathA, "null", <<80, 24>>)
    \/ CreateResume(1)
    \/ InitReuse(2, PathA, "null", <<80, 24>>)
    \/ \E w \in WS : InputMsg(w)
    \/ \E w \in WS : ActiveResize(w)
    \/ \E w \in WS : WsCloseEvent(w)
    \/ \E p \in Pids : PtyData(p, "text")
    \/ Tick

SpecActive == Init /\ [][NextActive]_vars

\* SpecDims: the dimensions of one project's session: inits and resize
\* messages with either size
NextDims ==
    \/ \E w \in WS : WsConnect(w)
    \/ \E w \in WS, d \in DimsSet : InitReuse(w, PathA, "null", d)
    \/ \E w \in WS, d \in DimsSet : InitAwait(w, PathA, "null", d)
    \/ \E w \in WS : CreateResume(w)
    \/ \E w \in WS, raw \in {<<0, 0>>, <<120, 40>>} : ResizeMsg(w, raw)
    \/ \E w \in WS : WsCloseEvent(w)

SpecDims == Init /\ [][NextDims]_vars

\* SpecResume: inits of one project with and without a resume target, the
\* first connection creating and the second one reusing, while the session
\* is killed and exits
NextResume ==
    \/ \E w \in WS : WsConnect(w)
    \/ \E sid \in ResumeIds : InitReuse(2, PathA, sid, <<80, 24>>)
    \/ \E sid \in ResumeIds : InitAwait(1, PathA, sid, <<80, 24>>)
    \/ CreateResume(1)
    \/ \E w \in WS : WsCloseEvent(w)
    \/ KillSession(PathA, TRUE)
    \/ \E p \in Pids : PtyExit(p)

SpecResume == Init /\ [][NextResume]_vars

\* SpecKilled: sessions of one project that are killed, reaped or exit while
\* one connection sends init and input messages and the clock advances
NextKilled ==
    \/ WsConnect(1)
    \/ InitReuse(1, PathA, "null", <<80, 24>>)
    \/ InitAwait(1, PathA, "null", <<80, 24>>)
    \/ CreateResume(1)
    \/ InputMsg(1)
    \/ WsCloseEvent(1)
    \/ KillSession(PathA, TRUE)
    \/ Reaper
    \/ \E p \in Pids : PtyExit(p)
    \/ Tick

SpecKilled == Init /\ [][NextKilled]_vars

\* SpecUrl: chunks with no, one and several URL matches, emitted while the
\* first connection creates the session and the second one reattaches
NextUrl ==
    \/ \E w \in WS : WsConnect(w)
    \/ InitAwait(1, PathA, "null", <<80, 24>>)
    \/ CreateResume(1)
    \/ InitReuse(2, PathA, "null", <<80, 24>>)
    \/ \E w \in WS : WsCloseEvent(w)
    \/ \E p \in Pids, d \in UrlChunks : PtyData(p, d)

SpecUrl == Init /\ [][NextUrl]_vars

\* SpecInput: input and resize messages of two connections that both send
\* an init for one project
NextInput ==
    \/ \E w \in WS : WsConnect(w)
    \/ \E w \in WS : InitAwait(w, PathA, "null", <<80, 24>>)
    \/ \E w \in WS : CreateResume(w)
    \/ \E w \in WS : InitReuse(w, PathA, "null", <<80, 24>>)
    \/ \E w \in WS : InputMsg(w)
    \/ \E w \in WS : ActiveResize(w)
    \/ \E w \in WS : WsCloseEvent(w)

SpecInput == Init /\ [][NextInput]_vars

\* SpecKillOutput: the output of the processes of one project whose session
\* is killed while a connection is attached and sends init again
NextKillOutput ==
    \/ WsConnect(1)
    \/ InitAwait(1, PathA, "null", <<80, 24>>)
    \/ CreateResume(1)
    \/ KillSession(PathA, FALSE)
    \/ \E p \in Pids : PtyData(p, "text")
    \/ WsCloseEvent(1)

SpecKillOutput == Init /\ [][NextKillOutput]_vars

\* SpecKillTwice: sessions of one project killed with and without force, also
\* when the key has no entry, while one connection sends init and closes
NextKillTwice ==
    \/ WsConnect(1)
    \/ InitAwait(1, PathA, "null", <<80, 24>>)
    \/ CreateResume(1)
    \/ \E f \in BOOLEAN : KillSession(PathA, f)
    \/ \E t \in timers : KillTimer(t)
    \/ \E p \in Pids : PtyExit(p)
    \/ WsCloseEvent(1)

SpecKillTwice == Init /\ [][NextKillTwice]_vars

\* SpecTwoProjects: one connection that sends init for two projects, one
\* after the other, and closes
TwoPaths == {PathA, PathB}

NextTwoProjects ==
    \/ WsConnect(1)
    \/ \E pp \in TwoPaths : InitAwait(1, pp, "null", <<80, 24>>)
    \/ CreateResume(1)
    \/ \E pp \in TwoPaths : InitReuse(1, pp, "null", <<80, 24>>)
    \/ \E p \in Pids : PtyData(p, "text")
    \/ WsCloseEvent(1)

SpecTwoProjects == Init /\ [][NextTwoProjects]_vars

\* SpecKeys: two connections that send init for projects whose paths differ
\* in one character
NextKeys ==
    \/ \E w \in WS : WsConnect(w)
    \/ \E pp \in SlashPaths : InitAwait(1, pp, "null", <<80, 24>>)
    \/ CreateResume(1)
    \/ \E pp \in SlashPaths : InitReuse(2, pp, "null", <<80, 24>>)
    \/ \E w \in WS : InputMsg(w)
    \/ \E w \in WS : WsCloseEvent(w)

SpecKeys == Init /\ [][NextKeys]_vars

\* SpecTmux: two concurrent createSessionForId calls and killSessionId
\* calls for one sessionId, whose tmux session may end by itself
NextTmux ==
    \/ \E c \in TmuxCalls : createSessionForIdCheck(c)
    \/ \E c \in TmuxCalls : createSessionForIdExec(c)
    \/ TmuxSessionExit
    \/ \E force \in BOOLEAN : killSessionIdCheck(force)
    \/ killSessionIdSend
    \/ killSessionIdWait
    \/ killSessionIdExec

SpecTmux == Init /\ [][NextTmux]_vars

\* SpecRecent: the clock and the Idle Reaper over one session that
\* connection 1 creates and connection 2 reattaches to, with input
NextRecent ==
    \/ \E w \in WS : WsConnect(w)
    \/ InitAwait(1, PathA, "null", <<80, 24>>)
    \/ CreateResume(1)
    \/ InitReuse(2, PathA, "null", <<80, 24>>)
    \/ \E w \in WS : InputMsg(w)
    \/ \E w \in WS : WsCloseEvent(w)
    \/ \E w \in WS : WsErrorEvent(w)
    \/ Reaper
    \/ Tick

SpecRecent == Init /\ [][NextRecent]_vars

(* ------------------------------ claims --------------------------------- *)
\* the session object s is the entry of some key
Registered(s) == \E k \in Keys : sessions[k] = s

\* C1: when no two calls of getOrCreateSession for a key overlapped since the
\* key last left the registry, every call that returned for the key returned
\* the session the registry holds, exactly one process was spawned for it,
\* and a call that found the key registered returned isNew = false and left
\* the registry and every process as they were.
C1_IdempotentState ==
    \A k \in Keys :
        ~hist[k].raced =>
            /\ hist[k].spawned <= 1
            /\ \A r \in hist[k].rets : r[1] = sessions[k] /\ sessions[k] # 0
            /\ hist[k].rets # {} => hist[k].spawned = 1
            /\ Cardinality({r \in hist[k].rets : r[2]}) <= 1

C1_ReuseStep ==
    \A w \in WS, pp \in ConnPaths, sid \in ConnResume, d \in ConnDims :
        InitReuse(w, pp, sid, d) =>
            LET k == generateSessionKey(pp) IN
            /\ sessions' = sessions
            /\ \A p \in Pids : proc'[p].state = proc[p].state
            /\ hist'[k].spawned = hist[k].spawned
            /\ <<sessions[k], FALSE>> \in hist'[k].rets

C1_IdempotentCreation == []C1_IdempotentState /\ [][C1_ReuseStep]_vars

\* C1 witness: a key whose calls never overlapped has returned its one
\* session both as new and, from a second call, as existing
C1_Witness ==
    \E k \in Keys :
        /\ ~hist[k].raced
        /\ sessions[k] # 0
        /\ hist[k].rets = {<<sessions[k], TRUE>>, <<sessions[k], FALSE>>}
        /\ hist[k].spawned = 1

\* C2: for every interleaving of getOrCreateSession calls with the same key,
\* at most one process is spawned for the key (since it last left the
\* registry) and every caller receives the same session.
C2_NoRaceSpawn ==
    \A k \in Keys :
        /\ hist[k].spawned <= 1
        /\ \A r1, r2 \in hist[k].rets : r1[1] = r2[1]

\* the connections bound to session s: the ones its output is forwarded to
BoundTransports(s) ==
    {w \in WS : sess[s].isConnected /\ sess[s].currentWs = w}

\* C3: a session has at most one bound transport, and isConnected says
\* whether it has one; an init of connection b for a session bound to another
\* connection a closes a, leaves the PTY as it was and makes b the only bound
\* transport, which the status of the project then reports.
C3_AtMostOneBound ==
    \A s \in Pids :
        /\ Cardinality(BoundTransports(s)) <= 1
        /\ Registered(s) => (sess[s].isConnected <=> sess[s].currentWs # 0)

C3_EvictStep ==
    \A b \in WS, pp \in ConnPaths, sid \in ConnResume, d \in ConnDims :
        LET k == generateSessionKey(pp)
            s == sessions[k]
            a == sess[s].currentWs
        IN (/\ s # 0
            /\ sess[s].isConnected /\ a # 0 /\ a # b
            /\ InitReuse(b, pp, sid, d)) =>
            /\ ws'[a].state # "OPEN"
            /\ sessions'[k] = s
            /\ proc'[s].state = "running"
            /\ proc'[s].sig = proc[s].sig
            /\ BoundTransports(s)' = {b}
            /\ getSessionStatus(Cur, pp)'.exists
            /\ getSessionStatus(Cur, pp)'.isConnected
            /\ getSessionStatus(Cur, pp)'.processId = s

C3_ExclusiveTransport == []C3_AtMostOneBound /\ [][C3_EvictStep]_vars

\* C3 witness: connection 1 was closed by the attach of connection 2, which
\* is now the bound transport of the registered session
C3_Witness ==
    \E k \in Keys :
        /\ sessions[k] # 0
        /\ ws[1].evicted /\ ws[1].state = "CLOSING"
        /\ ws[2].state = "OPEN"
        /\ BoundTransports(sessions[k]) = {2}
        /\ proc[sessions[k]].state = "running"

\* C4: the close or error event of the connection that is the bound
\* transport of its project's session clears the binding and changes nothing
\* else: the registry, every process and the output buffer stay as they
\* were, and the status reports exists = true, isConnected = false.
C4_DetachStep ==
    \A w \in WS, pp \in Paths, s \in Pids :
        (/\ ws[w].path = pp
         /\ sessions[generateSessionKey(pp)] = s
         /\ BoundTransports(s) = {w}
         /\ WsCloseEvent(w) \/ WsErrorEvent(w)) =>
            /\ sessions' = sessions
            /\ proc' = proc
            /\ proc'[s].state = "running"
            /\ sess'[s].outputBuffer = sess[s].outputBuffer
            /\ BoundTransports(s)' = {}
            /\ sess'[s].currentWs = 0
            /\ getSessionStatus(Cur, pp)'.exists
            /\ ~getSessionStatus(Cur, pp)'.isConnected
            /\ getSessionStatus(Cur, pp)'.processId = s
            /\ getSessionStatus(Cur, pp)'.bufferSize = Len(sess[s].outputBuffer)

C4_DetachPreservesProcess == [][C4_DetachStep]_vars

\* C4 witness: a session with buffered output whose only connection has
\* closed: registered, unbound, its process running
C4_Witness ==
    \E k \in Keys :
        LET s == sessions[k] IN
        /\ s # 0
        /\ ~sess[s].isConnected /\ sess[s].currentWs = 0
        /\ Len(sess[s].outputBuffer) > 0
        /\ proc[s].state = "running"
        /\ \E w \in WS : ws[w].state = "CLOSED"
        /\ \A w \in WS : ws[w].state \in {"NONE", "CLOSED"}

IsReplay(m) == m.type = "output" /\ m.via = "replay"
IsLive(m) == m.type = "output" /\ m.via = "live"

\* the buffered entries a connection was sent by the replay of its attach
ReplayEntries(log) == SelectSeq(log, IsReplay)

\* C5: an init of an open connection w for a session with N buffered entries
\* and no bound transport sends w exactly the N entries, in buffer order, and
\* no live output in that step; every chunk the PTY emits afterwards is
\* appended to what w was sent, so in everything an open connection has been
\* sent since its init each replayed entry comes before each live one and is
\* an older chunk than it.
C5_ReplayStep ==
    \A w \in WS, pp \in ConnPaths, sid \in ConnResume, d \in ConnDims,
       s \in Pids :
        (/\ sessions[generateSessionKey(pp)] = s
         /\ ~sess[s].isConnected
         /\ ws[w].state = "OPEN"
         /\ InitReuse(w, pp, sid, d)) =>
            LET buf == sess[s].outputBuffer
                r == ReplayEntries(ws'[w].log)
            IN /\ Len(r) = Len(buf)
               /\ \A i \in 1..Len(buf) :
                     /\ r[i].pid = s
                     /\ r[i].n = buf[i].n
                     /\ r[i].text = Rewritten(buf[i].data)
               /\ \A i \in 1..Len(ws'[w].log) : ~IsLive(ws'[w].log[i])
               /\ sess'[s].currentWs = w

C5_LiveAppends ==
    \A w \in WS, p \in Pids, c \in ChunkKinds :
        (ws[w].state = "OPEN" /\ PtyData(p, c)) =>
            /\ Len(ws'[w].log) >= Len(ws[w].log)
            /\ SubSeq(ws'[w].log, 1, Len(ws[w].log)) = ws[w].log
            /\ \A i \in (Len(ws[w].log) + 1)..Len(ws'[w].log) :
                  ~IsReplay(ws'[w].log[i])

C5_ReplayFirst ==
    \A w \in WS :
        ws[w].state = "OPEN" =>
            \A i, j \in 1..Len(ws[w].log) :
                (IsReplay(ws[w].log[i]) /\ IsLive(ws[w].log[j])
                    /\ ws[w].log[i].pid = ws[w].log[j].pid) =>
                    i < j /\ ws[w].log[i].n < ws[w].log[j].n

C6_BufferState ==
    \A s \in Pids :
        proc[s].state = "running" =>
            LET buf == sess[s].outputBuffer
                e == proc[s].emitted
            IN /\ Len(buf) <= 1000
               /\ sess[s].sinceTrim = -1 => Len(buf) = e
               /\ sess[s].sinceTrim >= 0 => Len(buf) = 800 + sess[s].sinceTrim
               /\ \A i \in 1..Len(buf) : buf[i].n = e - Len(buf) + i

C6_TrimStep ==
    \A s \in Pids :
        (Len(sess[s].outputBuffer) = 1000 /\ BufData(s)) =>
            /\ Len(sess'[s].outputBuffer) = 800
            /\ sess'[s].outputBuffer[800].n = proc[s].emitted + 1
            /\ \A i \in 1..799 :
                  sess'[s].outputBuffer[i] = sess[s].outputBuffer[i + 201]

C6_BufferBounded == []C6_BufferState /\ [][C6_TrimStep]_vars

\* C6 witness: the 1001st chunk has just been appended and the buffer was cut
\* to its 800 most recent entries
C6_Witness ==
    \E s \in Pids :
        /\ proc[s].emitted = 1001
        /\ sess[s].sinceTrim = 0
        /\ Len(sess[s].outputBuffer) = 800
        /\ sess[s].outputBuffer[1].n = 202

\* the session of key k has no bound transport and was last active more than
\* two hours ago
IdleUnbound(k) ==
    /\ sessions[k] # 0
    /\ ~sess[sessions[k]].isConnected
    /\ now - sess[sessions[k]].lastActiveAt > 2 * 60 * 60 * 1000

\* C7: one sweep of the reaper removes from the registry every session that
\* was unbound and idle for more than two hours when the sweep started, and
\* sends a kill signal to the process of each of them.
C7_SweepStep ==
    \A k \in Keys, s \in Pids :
        (sessions[k] = s /\ IdleUnbound(k) /\ Reaper) =>
            /\ sessions'[k] = 0
            /\ proc[s].sig = "none" /\ proc'[s].sig = "SIGHUP"
            /\ getSessionStatus(Cur, sess[s].projectPath)'.exists = FALSE

C7_SweepReapsIdle == [][C7_SweepStep]_vars

\* C7 witness: the sessions of both projects were reaped and their processes
\* signalled
C7_Witness ==
    /\ \A k \in Keys : sessions[k] = 0
    /\ \A p \in Pids : proc[p].state = "running" /\ proc[p].sig = "SIGHUP"
    /\ \A w \in WS : ws[w].state = "CLOSED"

\* connection w is live and attached to session s: it is open, its init
\* attached it to s, and no later attach evicted it
LiveAttached(w, s) == ws[w].state = "OPEN" /\ ws[w].attached = s

\* C8: a sweep of the reaper never removes a session that has a live
\* transport attached to it.
C8_ReaperStep ==
    \A k \in Keys :
        (Reaper /\ sessions[k] # 0
                /\ \E w \in WS : LiveAttached(w, sessions[k])) =>
            /\ sessions'[k] = sessions[k]
            /\ proc'[sessions[k]].sig = proc[sessions[k]].sig

C8_LiveNeverReaped == [][C8_ReaperStep]_vars

\* C9: killSession removes the entry of the key in the call itself, for
\* either value of force; while a key has no entry attachWebSocket for it
\* returns false and changes nothing; and no step binds a transport to a
\* session object that is no longer in the registry.
C9_AttachFails ==
    \A pp \in Paths, w \in WS :
        sessions[generateSessionKey(pp)] = 0 =>
            /\ ~attachWebSocket(Cur, pp, w).ok
            /\ attachWebSocket(Cur, pp, w).M = Cur

C9_KillStep ==
    \A pp \in ConnPaths, f \in BOOLEAN :
        KillSession(pp, f) =>
            /\ sessions'[generateSessionKey(pp)] = 0
            /\ ~getSessionStatus(Cur, pp)'.exists

C9_NoBindStep ==
    \A s \in Pids :
        (proc[s].state = "running" /\ ~Registered(s)) =>
            /\ ~Registered(s)'
            /\ sess'[s].currentWs \in {sess[s].currentWs, 0}
            /\ \A w \in WS :
                  ws'[w].attached = s => ws[w].attached = s

C9_KillUnregisters ==
    []C9_AttachFails /\ [][C9_KillStep /\ C9_NoBindStep]_vars

\* C9 witness: a session was killed without force and its process still
\* runs; a later init created a new session for the key, and the connection
\* is attached to the new session, not to the killed one
C9_Witness ==
    \E k \in Keys, s \in Pids, w \in WS :
        /\ sessions[k] # 0 /\ sessions[k] # s
        /\ proc[s].state = "running" /\ proc[s].key = k
        /\ proc[s].exitWritten /\ proc[s].sig = "none"
        /\ LiveAttached(w, sessions[k])
        /\ sess[sessions[k]].currentWs = w
        /\ sess[s].currentWs # w

\* C10: a forced kill of a registered session sends SIGKILL to its process in
\* the call and arms no timer; a non-forced kill writes the exit line to the
\* PTY, arms the timer and sends no signal; when the timer fires and the
\* registry has an entry for the key, the process of the killed session is
\* sent SIGKILL, and otherwise nothing is sent.
C10_KillStep ==
    \A pp \in ConnPaths, s \in Pids :
        LET k == generateSessionKey(pp) IN
        /\ (sessions[k] = s /\ KillSession(pp, TRUE)) =>
              /\ proc'[s].sig = "SIGKILL"
              /\ proc'[s].exitWritten = proc[s].exitWritten
              /\ timers' = timers
        /\ (sessions[k] = s /\ KillSession(pp, FALSE)) =>
              /\ proc'[s].exitWritten
              /\ proc'[s].sig = proc[s].sig
              /\ timers' = timers \cup {[key |-> k, pid |-> s]}

C10_TimerStep ==
    \A t \in timers :
        KillTimer(t) =>
            /\ t \notin timers'
            /\ (sessions[t.key] # 0 /\ proc[t.pid].state = "running") =>
                  proc'[t.pid].sig = "SIGKILL"
            /\ sessions[t.key] = 0 => proc' = proc
            /\ sessions' = sessions

C11_AbsentKill ==
    \A pp \in Paths, f \in BOOLEAN :
        sessions[generateSessionKey(pp)] = 0 =>
            /\ killSession(Cur, pp, f).ok
            /\ killSession(Cur, pp, f).M = Cur

C11_TwiceAsOnce ==
    \A pp \in Paths, f1, f2 \in BOOLEAN :
        LET once == killSession(Cur, pp, f1)
            twice == killSession(once.M, pp, f2)
        IN once.ok /\ twice.ok /\ twice.M = once.M

C11_AbsentStep ==
    \A pp \in ConnPaths, f \in BOOLEAN :
        (sessions[generateSessionKey(pp)] = 0 /\ KillSession(pp, f)) =>
            UNCHANGED <<sessions, sess, proc, ws, timers, now, tmux>>

C11_KillAbsentNoop ==
    [](C11_AbsentKill /\ C11_TwiceAsOnce) /\ [][C11_AbsentStep]_vars

\* C11 witness: the session of the key was killed without force, its process
\* still runs with the timer armed, and the key has no entry: the state in
\* which a second kill finds nothing
C11_Witness ==
    \E k \in Keys, s \in Pids :
        /\ sessions[k] = 0
        /\ proc[s].state = "running" /\ proc[s].key = k
        /\ proc[s].exitWritten /\ proc[s].sig = "none"
        /\ [key |-> k, pid |-> s] \in timers
        /\ \E w \in WS : ws[w].state = "OPEN" /\ sess[s].currentWs = w

\* C12: the exit event of the process of a session leaves the registry
\* without that session and without an entry for its key, whatever the age of
\* the session and whether or not a transport is bound; the status of the
\* project then reports exists = false.
C12_ExitStep ==
    \A p \in Pids, pp \in Paths :
        (sess[p].projectPath = pp /\ PtyExit(p)) =>
            /\ sessions'[generateSessionKey(pp)] = 0
            /\ \A k \in Keys : sessions'[k] # p
            /\ ~getSessionStatus(Cur, pp)'.exists
            /\ proc'[p].state = "exited"

C12_ExitRemovesSession == [][C12_ExitStep]_vars

\* C12 witness: the process of a session exited an hour or more after the
\* session was last touched, while an open connection was attached to it;
\* the key has no entry
C12_Witness ==
    \E p \in Pids, w \in WS :
        /\ proc[p].state = "exited"
        /\ sessions[proc[p].key] = 0
        /\ ws[w].state = "OPEN" /\ ws[w].attached = p
        /\ now >= TickMs

\* C13: when the process of a session exits while an open transport is bound
\* to the session, the exit handler sends that transport a message.
C13_ExitStep ==
    \A p \in Pids, w \in WS :
        (/\ Registered(p)
         /\ sess[p].isConnected /\ sess[p].currentWs = w
         /\ ws[w].state = "OPEN"
         /\ PtyExit(p)) =>
            Len(ws'[w].log) > Len(ws[w].log)

C13_ExitReported == [][C13_ExitStep]_vars

\* C14: writeToSession and resizeSession never raise an exception; for a key
\* with an entry they return true and the PTY has received the input or the
\* dimensions, and for a key without an entry they return false and change
\* nothing.
C14_NeverThrow ==
    \A pp \in Paths, raw \in RawDims, w \in WS :
        LET s == sessions[generateSessionKey(pp)]
            R == resizeSession(Cur, pp, resizeDims(raw))
            Wr == writeToSession(Cur, pp, <<"input", w>>)
        IN /\ ~R.threw /\ ~Wr.threw
           /\ s = 0 => /\ ~R.ok /\ R.M = Cur
                       /\ ~Wr.ok /\ Wr.M = Cur
           /\ s # 0 => /\ R.ok /\ R.M.proc[s].dims = resizeDims(raw)
                       /\ Wr.ok /\ Wr.M.proc[s].lastInput = w

\* C15: a chunk emitted by the PTY of a session that has no bound transport
\* is appended to the end of the session's buffer and sent to nobody; the
\* next attach of an open connection replays every entry of the buffer,
\* those appended while the session was unbound included.
C15_AppendStep ==
    \A p \in Pids, c \in ChunkKinds :
        (/\ proc[p].state = "running"
         /\ ~sess[p].isConnected
         /\ PtyData(p, c)) =>
            LET old == sess[p].outputBuffer
                new == sess'[p].outputBuffer
            IN /\ Len(new) = Len(old) + 1
               /\ SubSeq(new, 1, Len(old)) = old
               /\ new[Len(new)].data = c
               /\ new[Len(new)].n = proc[p].emitted + 1
               /\ ws' = ws

C15_AttachStep ==
    \A w \in WS, pp \in ConnPaths, sid \in ConnResume, d \in ConnDims,
       s \in Pids :
        (/\ sessions[generateSessionKey(pp)] = s
         /\ ~sess[s].isConnected
         /\ ws[w].state = "OPEN"
         /\ InitReuse(w, pp, sid, d)) =>
            \A i \in 1..Len(sess[s].outputBuffer) :
                \E j \in 1..Len(ws'[w].log) :
                    /\ IsReplay(ws'[w].log[j])
                    /\ ws'[w].log[j].n = sess[s].outputBuffer[i].n

C16_PlainKilledOnClose ==
    plain.state \in {"CLOSED", "ERRORED"} =>
        \A i \in PlainPtys :
            plain.ptys[i].state = "running" => plain.ptys[i].sig # "none"

\* C17: when a suspended getOrCreateSession call for a project whose
\* directory does not exist resumes, it fails: the key has no entry
\* afterwards, no session is returned as new, and the connection is not told
\* that a new session was started.
C17_SpawnStep ==
    \A w \in WS, pp \in Paths :
        (/\ ws[w].pending # NoCall /\ ws[w].pending.path = pp
         /\ ~DirExists(pp)
         /\ CreateResume(w)) =>
            /\ sessions'[generateSessionKey(pp)] = 0
            /\ hist'[generateSessionKey(pp)].rets =
                   hist[generateSessionKey(pp)].rets
            /\ \A i \in 1..Len(ws'[w].log) : ws'[w].log[i] # WelcomeMsg(TRUE)

C17_SpawnErrorSurfaced == [][C17_SpawnStep]_vars

\* a message that carries a chunk of the PTY: replayed from the buffer or
\* forwarded live
IsChunk(m) == IsReplay(m) \/ IsLive(m)

\* C18: in what an open connection has been sent since its init, the chunks
\* of one PTY appear in the order the PTY emitted them, replayed and live
\* ones alike; and a chunk forwarded live is sent last, after everything the
\* connection was sent before.
C18_InOrder ==
    \A w \in WS :
        ws[w].state = "OPEN" =>
            \A i, j \in 1..Len(ws[w].log) :
                (/\ i < j
                 /\ IsChunk(ws[w].log[i]) /\ IsChunk(ws[w].log[j])
                 /\ ws[w].log[i].pid = ws[w].log[j].pid) =>
                    /\ ws[w].log[i].n < ws[w].log[j].n
                    /\ IsLive(ws[w].log[i]) => IsLive(ws[w].log[j])

C18_LiveStep ==
    \A p \in Pids, c \in ChunkKinds, w \in WS :
        (/\ sess[p].isConnected /\ sess[p].currentWs = w
         /\ ws[w].state = "OPEN"
         /\ PtyData(p, c)) =>
            LET new == ws'[w].log IN
            /\ Len(new) = Len(ws[w].log) + UrlMatches(c) + 1
            /\ SubSeq(new, 1, Len(ws[w].log)) = ws[w].log
            /\ IsLive(new[Len(new)])
            /\ new[Len(new)].pid = p
            /\ new[Len(new)].n = proc[p].emitted + 1

C18_OutputOrdered == []C18_InOrder /\ [][C18_LiveStep]_vars

\* C18 witness: an open connection attached to a new session has been sent
\* the first two chunks of its PTY live, the first before the second
C18_Witness ==
    \E w \in WS, i, j \in 1..MaxLog + MaxChunks :
        /\ ws[w].state = "OPEN"
        /\ i < j /\ j <= Len(ws[w].log)
        /\ IsLive(ws[w].log[i]) /\ ws[w].log[i].n = 1
        /\ IsLive(ws[w].log[j]) /\ ws[w].log[j].n = 2
        /\ ws[w].log[i].pid = ws[w].log[j].pid

\* C19: for every project path the status reports exists exactly when the
\* key has an entry, and then the fields of the session of that entry:
\* whether a transport is bound, the buffer length, the process, the
\* creation and last-activity times and the dimensions; getAllSessions lists
\* exactly the keys that have an entry, each with the status of its session.
C19_StatusFaithful ==
    /\ \A pp \in Paths :
          LET k == generateSessionKey(pp)
              s == sessions[k]
              st == getSessionStatus(Cur, pp)
          IN /\ st.exists <=> s # 0
             /\ st.sessionKey = k
             /\ s # 0 =>
                   /\ st.isConnected <=> BoundTransports(s) # {}
                   /\ st.bufferSize = Len(sess[s].outputBuffer)
                   /\ st.processId = s
                   /\ st.createdAt = sess[s].createdAt
                   /\ st.lastActiveAt = sess[s].lastActiveAt
                   /\ st.dims = sess[s].dims
                   /\ st.projectPath = sess[s].projectPath
    /\ {e.key : e \in getAllSessions(Cur)} = {k \in Keys : sessions[k] # 0}
    /\ \A e \in getAllSessions(Cur) :
          /\ e.status.exists
          /\ e.status.sessionKey = e.key
          /\ e.status.processId = sessions[e.key]

\* C19 witness: a session created at time 0 with buffered output, to which a
\* connection attached later, and the status of its project says so
C19_Witness ==
    \E pp \in Paths :
        LET st == getSessionStatus(Cur, pp) IN
        /\ st.exists
        /\ st.isConnected
        /\ st.bufferSize > 0
        /\ st.lastActiveAt > st.createdAt
        /\ Cardinality(getAllSessions(Cur)) = 1

\* C20: the close or error event of a connection a leaves the session of its
\* project bound to the connection b it is bound to, when b is not a.
C20_CloseStep ==
    \A a, b \in WS, pp \in Paths, s \in Pids :
        (/\ a # b
         /\ ws[a].path = pp
         /\ sessions[generateSessionKey(pp)] = s
         /\ sess[s].isConnected /\ sess[s].currentWs = b
         /\ WsCloseEvent(a) \/ WsErrorEvent(a)) =>
            /\ sess'[s].isConnected
            /\ sess'[s].currentWs = b

C20_EvictedCloseKeepsBinding == [][C20_CloseStep]_vars

\* C21: the exit event of a process whose session is no longer the entry of
\* its key leaves the session that is the entry of the key in the registry.
C21_ExitStep ==
    \A p \in Pids, k \in Keys :
        (/\ proc[p].key = k
         /\ sessions[k] # 0 /\ sessions[k] # p
         /\ PtyExit(p)) =>
            sessions'[k] = sessions[k]

C21_ExitRemovesOnlyOwn == [][C21_ExitStep]_vars

\* C22: a running process whose session is not in the registry eventually
\* ends.
C22_NoLeak ==
    \A p \in Pids :
        (proc[p].state = "running" /\ ~Registered(p))
            ~> (proc[p].state # "running")

\* C23: an input message, a resize message, an init that reuses the session,
\* the attach of a creation and a close event each leave lastActiveAt of the
\* session of the connection's project equal to the current time; no step
\* decreases lastActiveAt of a session; an output event of the PTY and the
\* passing of time leave it as it was.
C23_TouchStep ==
    \A w \in WS, pp \in Paths, s \in Pids :
        (/\ ws[w].path = pp
         /\ sessions[generateSessionKey(pp)] = s
         /\ \/ InputMsg(w)
            \/ ActiveResize(w)
            \/ WsCloseEvent(w)) =>
            sess'[s].lastActiveAt = now

C23_ReuseStep ==
    \A w \in WS, s \in Pids :
        (/\ sessions[generateSessionKey(PathA)] = s
         /\ InitReuse(w, PathA, "null", <<80, 24>>)) =>
            sess'[s].lastActiveAt = now

C23_CreateStep ==
    \A w \in WS :
        (ws[w].pending # NoCall /\ CreateResume(w)) =>
            /\ sessions'[generateSessionKey(PathA)] # 0
            /\ sess'[sessions'[generateSessionKey(PathA)]].lastActiveAt = now

C23_QuietStep ==
    /\ \A s \in Pids :
          (proc[s].state = "running" /\ proc'[s].state = "running") =>
              sess'[s].lastActiveAt >= sess[s].lastActiveAt
    /\ \A p \in Pids :
          PtyData(p, "text") =>
              \A s \in Pids : sess'[s].lastActiveAt = sess[s].lastActiveAt
    /\ Tick => \A s \in Pids : sess'[s].lastActiveAt = sess[s].lastActiveAt

C23_LastActiveMaintained ==
    [][C23_TouchStep /\ C23_ReuseStep /\ C23_CreateStep /\ C23_QuietStep]_vars

\* C23 witness: a session created at time 0 received input from connection 2
\* at the current, later time, after its PTY had emitted output
C23_Witness ==
    \E s \in Pids :
        /\ Registered(s)
        /\ sess[s].createdAt = 0
        /\ now >= 2 * TickMs
        /\ sess[s].lastActiveAt = now
        /\ proc[s].lastInput = 2
        /\ proc[s].emitted > 0
        /\ proc[s].dims = <<120, 40>>

\* C24: a sweep of the reaper leaves in the registry, with its process not
\* signalled, every session whose lastActiveAt is less than two hours before
\* the current time; and right after a close event, an input message or an
\* init reusing the session, a sweep would not collect the session.
C24_RecentStep ==
    \A k \in Keys, s \in Pids :
        (/\ sessions[k] = s
         /\ now - sess[s].lastActiveAt < 2 * 60 * 60 * 1000
         /\ Reaper) =>
            /\ sessions'[k] = s
            /\ proc'[s] = proc[s]

C24_TouchStep ==
    \A w \in WS, pp \in ConnPaths, s \in Pids :
        (/\ sessions[generateSessionKey(pp)] = s
         /\ \/ (ws[w].path = pp /\ WsCloseEvent(w))
            \/ (ws[w].path = pp /\ WsErrorEvent(w))
            \/ (ws[w].path = pp /\ InputMsg(w))
            \/ InitReuse(w, pp, "null", <<80, 24>>)) =>
            /\ generateSessionKey(pp) \notin sessionsToDelete(Cur)'
            /\ cleanupInactiveSessions(Cur)'.sessions = sessions'

C24_NotReapedWhileRecent == [][C24_RecentStep /\ C24_TouchStep]_vars

\* C24 witness: a session detached at a time after its creation is still in
\* the registry, unbound, an hour later, with sweeps having run since
C24_Witness ==
    \E k \in Keys :
        LET s == sessions[k] IN
        /\ s # 0
        /\ ~sess[s].isConnected
        /\ sess[s].lastActiveAt > sess[s].createdAt
        /\ now - sess[s].lastActiveAt = TickMs
        /\ \A w \in WS : ws[w].state = "CLOSED"

\* C25: a session stops being the entry of its key only in a step that is an
\* explicit kill of its project, the exit event of its own process, or a
\* sweep that finds it unbound and idle; and an init that reuses the session
\* and the close and error events of connections leave every entry in place
\* and every process running, unsignalled.
C25_RemovalStep ==
    \A k \in Keys, s \in Pids :
        (sessions[k] = s /\ sessions'[k] # s) =>
            \/ \E pp \in ConnPaths, f \in BOOLEAN :
                  generateSessionKey(pp) = k /\ KillSession(pp, f)
            \/ PtyExit(s)
            \/ (IdleUnbound(k) /\ Reaper)

C25_FrameStep ==
    \A w \in WS :
        (\/ WsCloseEvent(w)
         \/ WsErrorEvent(w)
         \/ \E pp \in ConnPaths : InitReuse(w, pp, "null", <<80, 24>>)) =>
            /\ sessions' = sessions
            /\ \A p \in Pids : /\ proc'[p].state = proc[p].state
                               /\ proc'[p].sig = proc[p].sig

C25_RemovedOnlyByKillReapExit == [][C25_RemovalStep /\ C25_FrameStep]_vars

\* C26: the cols and rows the status of a project reports are the dimensions
\* of the PTY of its session.
C26_DimsMatchPty ==
    \A pp \in Paths :
        LET s == sessions[generateSessionKey(pp)] IN
        s # 0 => getSessionStatus(Cur, pp).dims = proc[s].dims

\* C27: no step changes the resume target of a session once it is created;
\* an init for a key that has an entry, whatever resume target it names,
\* returns the session of the entry with the target it was created with, and
\* spawns, ends and signals no process.
C27_FixedStep ==
    \A s \in Pids :
        (sess[s] # NoSess /\ sess'[s] # NoSess) =>
            /\ sess'[s].sessionId = sess[s].sessionId
            /\ sess'[s].reconnectedSessionId = sess[s].reconnectedSessionId
            /\ sess'[s].reconnectedSessionId = sess'[s].sessionId

C27_ReuseStep ==
    \A w \in WS, sid \in ResumeIds, s \in Pids :
        (/\ sessions[generateSessionKey(PathA)] = s
         /\ InitReuse(w, PathA, sid, <<80, 24>>)) =>
            /\ sessions' = sessions
            /\ <<s, FALSE>> \in hist'[generateSessionKey(PathA)].rets
            /\ hist'[generateSessionKey(PathA)].spawned =
                   hist[generateSessionKey(PathA)].spawned
            /\ getSessionStatus(Cur, PathA)'.sessionId = sess[s].sessionId
            /\ \A p \in Pids : /\ proc'[p].state = proc[p].state
                               /\ proc'[p].sig = proc[p].sig

C27_ResumeTargetFixed == [][C27_FixedStep /\ C27_ReuseStep]_vars

\* C27 witness: a connection whose init named the resume target s1 is
\* attached to the session created without a resume target
C27_Witness ==
    \E w \in WS, s \in Pids :
        /\ Registered(s)
        /\ LiveAttached(w, s)
        /\ ws[w].currentSessionId = "s1"
        /\ sess[s].sessionId = "null"
        /\ sess[s].currentWs = w

\* C28: a session that left the registry (by a kill, a sweep of the reaper
\* or the exit of its process) never has an entry again, no transport is
\* bound to it that was not bound before, and its process is written no
\* input and is not resized; every session that enters the registry is a new
\* object with a process spawned in that step.
C28_Killed(s) == proc[s].state # "none" /\ ~Registered(s)

C28_RemovalStep ==
    \A k \in Keys, s \in Pids :
        (/\ sessions[k] = s
         /\ sessions'[k] # s
         /\ \/ KillSession(PathA, TRUE)
            \/ Reaper
            \/ PtyExit(s)) => C28_Killed(s)'

C28_TerminalStep ==
    \A s \in Pids :
        C28_Killed(s) =>
            /\ C28_Killed(s)'
            /\ sess'[s].currentWs \in {sess[s].currentWs, 0}
            /\ \A w \in WS : ws'[w].attached = s => ws[w].attached = s
            /\ proc'[s].state = "running" =>
                  /\ proc'[s].lastInput = proc[s].lastInput
                  /\ proc'[s].dims = proc[s].dims
                  /\ proc'[s].exitWritten = proc[s].exitWritten

C28_Unreachable ==
    \A s \in Pids :
        C28_Killed(s) =>
            \A pp \in ConnPaths, w \in WS :
                /\ writeToSession(Cur, pp, <<"input", w>>).M.proc[s] = proc[s]
                /\ resizeSession(Cur, pp, <<120, 40>>).M.proc[s] = proc[s]
                /\ attachWebSocket(Cur, pp, w).M.sess[s] = sess[s]

C28_NewStep ==
    \A k \in Keys :
        (sessions'[k] # 0 /\ sessions'[k] # sessions[k]) =>
            /\ proc[sessions'[k]].state = "none"
            /\ proc'[sessions'[k]].state = "running"
            /\ sess[sessions'[k]] = NoSess
            /\ CreateResume(1)

C28_KilledIsTerminal ==
    /\ []C28_Unreachable
    /\ [][C28_RemovalStep /\ C28_TerminalStep /\ C28_NewStep]_vars

\* C28 witness: a session was killed and its process still runs; a later init
\* created another session for the project, whose process took the input of
\* the connection attached to it while the killed one took none
C28_Witness ==
    \E k \in Keys, s \in Pids, w \in WS :
        /\ C28_Killed(s) /\ proc[s].key = k
        /\ proc[s].state = "running" /\ proc[s].sig = "SIGKILL"
        /\ proc[s].lastInput = 0
        /\ sessions[k] # 0 /\ sessions[k] # s
        /\ LiveAttached(w, sessions[k])
        /\ proc[sessions[k]].lastInput = w

\* the messages sendToWebSocket sends: live chunks, replayed entries and the
\* two markers of a replay
ViaSendToWebSocket(m) == m.via \in {"live", "replay", "marker", "end"}

\* C29: sendToWebSocket for a transport that is not OPEN returns without a
\* send and leaves every transport as it was; no step adds a message of
\* sendToWebSocket to what a transport that is not OPEN was sent; and a chunk
\* the PTY emits while the bound transport of its session is not OPEN is
\* appended to the buffer and changes nothing else of the session, the
\* registry and the transports.
C29_ClosedNoOp ==
    \A w \in WS, d \in UrlChunks :
        ws[w].state # "OPEN" =>
            sendToWebSocket(ws, w, Tag("live", 1, 1), d) = ws

C29_NotSentStep ==
    \A w \in WS :
        ws[w].state # "OPEN" =>
            \A i \in 1..Len(ws'[w].log) :
                ViaSendToWebSocket(ws'[w].log[i]) =>
                    /\ i <= Len(ws[w].log)
                    /\ ws'[w].log[i] = ws[w].log[i]

C29_DataStep ==
    \A p \in Pids, d \in UrlChunks, w \in WS :
        (/\ sess[p].isConnected /\ sess[p].currentWs = w
         /\ ws[w].state # "OPEN"
         /\ PtyData(p, d)) =>
            /\ ws' = ws
            /\ sessions' = sessions
            /\ Len(sess'[p].outputBuffer) = Len(sess[p].outputBuffer) + 1
            /\ sess'[p].outputBuffer[Len(sess'[p].outputBuffer)].data = d
            /\ sess'[p].isConnected /\ sess'[p].currentWs = w
            /\ sess'[p].lastActiveAt = sess[p].lastActiveAt
            /\ \A q \in Pids \ {p} : sess'[q] = sess[q]

C29_SendChecksOpen ==
    []C29_ClosedNoOp /\ [][C29_NotSentStep /\ C29_DataStep]_vars

\* C29 witness: the transport bound to a session is closed, the PTY emitted
\* a chunk with a URL match, the buffer holds it and the transport was sent
\* no message for it
C29_Witness ==
    \E p \in Pids, w \in WS :
        /\ Registered(p)
        /\ sess[p].isConnected /\ sess[p].currentWs = w
        /\ ws[w].state = "CLOSED"
        /\ Len(sess[p].outputBuffer) = 1
        /\ sess[p].outputBuffer[1].data = "Visit OPEN_URL"
        /\ \A i \in 1..Len(ws[w].log) : ~ViaSendToWebSocket(ws[w].log[i])

\* number of pieces of a chunk that one of the patterns matches
C30_Matches(data) ==
    Cardinality({j \in DOMAIN Scan(data) :
                    \E i \in DOMAIN patterns : patterns[i] = Scan(data)[j]})

\* the chunk number n of process p, as the buffer of its session holds it
C30_Chunk(p, n) ==
    LET buf == sess[p].outputBuffer
    IN buf[CHOOSE i \in DOMAIN buf : buf[i].n = n].data

\* the messages of chunk m.pid, m.n in a log, up to the output message at i
C30_UrlsBefore(log, i) ==
    {j \in 1..Len(log) :
        /\ log[j].type = "url_open" /\ log[j].via = log[i].via
        /\ log[j].pid = log[i].pid /\ log[j].n = log[i].n}

C30_Shape(log, i) ==
    LET k == C30_Matches(C30_Chunk(log[i].pid, log[i].n))
    IN /\ C30_UrlsBefore(log, i) = (i - k)..(i - 1)
       /\ Cardinality({j \in 1..Len(log) :
              /\ log[j].type = "output" /\ log[j].via = log[i].via
              /\ log[j].pid = log[i].pid /\ log[j].n = log[i].n}) = 1

\* the messages of a chunk do not depend on what the transport was sent before
C30_Stateless ==
    \A w \in WS, d \in UrlChunks :
        ws[w].state = "OPEN" =>
            LET out == sendToWebSocket(ws, w, Tag("live", 1, 1), d)[w].log
                alone == sendToWebSocket([ws EXCEPT ![w].log = <<>>], w,
                                         Tag("live", 1, 1), d)[w].log
            IN SubSeq(out, Len(ws[w].log) + 1, Len(out)) = alone

\* C30 as stated: in what a transport was sent, every chunk, live or
\* replayed, is one url_open message for each match of a pattern in the chunk
\* followed by exactly one output message, and the output message carries the
\* text of the chunk.
C30_OutputCarriesChunkText ==
    \A w \in WS :
        \A i \in 1..Len(ws[w].log) :
            IsChunk(ws[w].log[i]) =>
                /\ C30_Shape(ws[w].log, i)
                /\ ws[w].log[i].text =
                       C30_Chunk(ws[w].log[i].pid, ws[w].log[i].n)

\* C30, amended: in what a transport was sent, every chunk, live or replayed,
\* is one url_open message for each match of a pattern in the chunk followed
\* by exactly one output message; the output message carries the text of the
\* chunk with every match of the OPEN_URL pattern replaced by the notice of
\* the opening, and the text itself when that pattern has no match; the
\* messages of a chunk depend on the chunk alone.
C30_OneUrlOpenPerMatch ==
    /\ C30_Stateless
    /\ \A w \in WS :
        \A i \in 1..Len(ws[w].log) :
            IsChunk(ws[w].log[i]) =>
                LET d == C30_Chunk(ws[w].log[i].pid, ws[w].log[i].n)
                    words == Scan(d)
                IN /\ C30_Shape(ws[w].log, i)
                   /\ ws[w].log[i].text =
                        Join([j \in DOMAIN words |->
                                IF words[j] = "OPEN_URL"
                                THEN "Opening in browser" ELSE words[j]])
                   /\ (\A j \in DOMAIN words : words[j] # "OPEN_URL") =>
                          ws[w].log[i].text = d

\* C30 witness: a connection was sent, for one live chunk that two patterns
\* match, two url_open messages and then the output message with the
\* rewritten text
C30_Witness ==
    \E w \in WS, i \in 1..MaxLog :
        /\ ws[w].state = "OPEN"
        /\ i + 2 <= Len(ws[w].log)
        /\ ws[w].log[i].type = "url_open"
        /\ ws[w].log[i + 1].type = "url_open"
        /\ IsLive(ws[w].log[i + 2])
        /\ ws[w].log[i + 2].text = "Visit Opening in browser"

\* C31: an input or resize message that arrives on an open connection which
\* is not the bound transport of the session of its project leaves the
\* process of that session as it was.
C31_UnboundStep ==
    \A w \in WS, s \in Pids :
        (/\ ws[w].state = "OPEN"
         /\ ws[w].path = PathA
         /\ sessions[generateSessionKey(PathA)] = s
         /\ sess[s].currentWs # w
         /\ InputMsg(w) \/ ActiveResize(w)) => proc'[s] = proc[s]

C31_InputOnlyFromBound == [][C31_UnboundStep]_vars

\* C32: a chunk a process emits is sent to a transport only when the session
\* of the process is in the registry and bound to that transport; so the
\* process of a killed session sends nothing to the transport that was bound
\* to it, and the processes that send live output to one transport are never
\* two.
C32_OutputStep ==
    \A p \in Pids, w \in WS :
        (/\ ws'[w].log # ws[w].log
         /\ PtyData(p, "text")) =>
            /\ Registered(p)
            /\ sess[p].isConnected /\ sess[p].currentWs = w

C32_OneSource ==
    \A w \in WS :
        Cardinality({p \in Pids : /\ proc[p].state = "running"
                                  /\ sess[p].isConnected
                                  /\ sess[p].currentWs = w}) <= 1

C32_OutputOnlyFromRegistered == []C32_OneSource /\ [][C32_OutputStep]_vars

\* the sessions of the registry that have transport w bound
BoundSessions(w) ==
    {s \in Pids : Registered(s) /\ sess[s].isConnected /\ sess[s].currentWs = w}

\* C33: a transport is the bound transport of at most one session of the
\* registry, and the close event of a transport leaves no session of the
\* registry bound to it.
C33_AtMostOneSession ==
    \A w \in WS : Cardinality(BoundSessions(w)) <= 1

C33_CloseStep ==
    \A w \in WS : WsCloseEvent(w) => BoundSessions(w)' = {}

C33_OneSessionPerTransport ==
    []C33_AtMostOneSession /\ [][C33_CloseStep]_vars

\* C34: an init of an open connection that is already the bound transport of
\* the session of the project leaves the connection open and bound.
C34_ReattachStep ==
    \A w \in WS, s \in Pids :
        (/\ ws[w].state = "OPEN"
         /\ sessions[generateSessionKey(PathA)] = s
         /\ sess[s].isConnected /\ sess[s].currentWs = w
         /\ InitReuse(w, PathA, "null", <<80, 24>>)) =>
            /\ ws'[w].state = "OPEN"
            /\ sess'[s].isConnected /\ sess'[s].currentWs = w

C34_AttachKeepsOwnTransport == [][C34_ReattachStep]_vars

\* the messages of a log that carry chunk n of process p
C35_Deliveries(log, p, n) ==
    {i \in 1..Len(log) : IsChunk(log[i]) /\ log[i].pid = p /\ log[i].n = n}

C36_KeysOfConnections ==
    \A a, b \in WS :
        (ws[a].path # NoPath /\ ws[b].path # NoPath) =>
            /\ ws[a].path = ws[b].path =>
                   generateSessionKey(ws[a].path) = generateSessionKey(ws[b].path)
            /\ ws[a].path # ws[b].path =>
                   generateSessionKey(ws[a].path) # generateSessionKey(ws[b].path)

C36_OwnProject ==
    \A w \in WS, s \in Pids :
        (ws[w].attached = s /\ ws[w].path # NoPath) =>
            sess[s].projectPath = ws[w].path

C36_KeyInjective == C36_KeysOfConnections /\ C36_OwnProject

\* C37: at most one PTY of the plain-shell connection runs, and every PTY of
\* the connection that runs and was not killed is the one the ptyProcess
\* variable of the handler refers to.
C37_OnePlainPty ==
    /\ Cardinality({i \in PlainPtys : plain.ptys[i].state = "running"}) <= 1
    /\ \A i \in PlainPtys :
          (plain.ptys[i].state = "running" /\ plain.ptys[i].sig = "none") =>
              plain.ptyProcess = i

\* C38: a createSessionForId call that finds the session returns exists
\* without a creation command; a creation command is issued only when no
\* session exists; and no call fails.
C38_CheckStep ==
    \A c \in TmuxCalls :
        (tmux.exists /\ createSessionForIdCheck(c)) =>
            /\ tmux'.create[c].result = "exists"
            /\ ~tmux'.create[c].issued
            /\ tmux'.exists

C38_ExecStep ==
    \A c \in TmuxCalls : createSessionForIdExec(c) => ~tmux.exists

C38_NoFail == \A c \in TmuxCalls : tmux.create[c].result # "threw"

C38_CreateOnce == []C38_NoFail /\ [][C38_CheckStep /\ C38_ExecStep]_vars

\* C39: a killSessionId call that finds no session returns and changes
\* nothing; a forced call that finds the session goes on to kill-session, a
\* non-forced one to sending exit; a non-forced call issues kill-session only
\* after the check that follows the wait found the session; and when a call
\* returns without a logged failure the session does not exist.
C39_CheckStep ==
    \A force \in BOOLEAN :
        killSessionIdCheck(force) =>
            /\ ~tmux.exists =>
                  /\ tmux'.kill.pc = "done"
                  /\ tmux'.exists = tmux.exists
                  /\ tmux'.create = tmux.create
            /\ (tmux.exists /\ force) => tmux'.kill.pc = "kill"
            /\ (tmux.exists /\ ~force) => tmux'.kill.pc = "send"

C39_ForceKillStep ==
    (killSessionIdExec /\ ~tmux.kill.force) => tmux.kill.via = "wait"

C39_ReturnStep ==
    (/\ tmux.kill.pc # "done" /\ tmux'.kill.pc = "done"
     /\ tmux'.kill.result # "failed") => ~tmux'.exists

C39_KillSafe ==
    [][C39_CheckStep /\ C39_ForceKillStep /\ C39_ReturnStep]_vars

====
